---- MODULE Spec2Model ----
(***************************************************************************)
(* Dice board of bissectra/Sudoku: the orientation algebra                 *)
(* (orientation.ts), the seeded generator, the Latin-square solver and the *)
(* movement state machine of DiceController (diceController.ts).           *)
(*                                                                         *)
(* Conventions.  A value of type `T | null` is a sequence of length at     *)
(* most one: null is <<>> and a present value v is <<v>>.  Arrays that the  *)
(* code indexes by cell are functions on 0..totalCells-1; arrays that the  *)
(* code builds and shuffles are sequences (index i of the code is i+1).    *)
(* A 32-bit unsigned number is kept as two 16-bit limbs [hi, lo].          *)
(***************************************************************************)
EXTENDS Integers, Sequences, FiniteSets, TLC

(***************************************************************************)
(* Bounds of the model                                                     *)
(***************************************************************************)
\* side of the board handed to `new DiceController(gridSize)`
gridSize == 2
\* a supplied grid holds at most this many '#' cells
MaxDice == 2
\* requests that start a roll, per run
MaxMoves == 2
\* performance.now() advances by FrameStep, MaxFrames times
FrameStep == 200
MaxFrames == 3
\* rolls applied in a row to an orientation built from two labels
MaxWalk == 2
\* frames of FrameStep ms for which the clock of the draw loop runs
DrawFrames == 8
\* cells at the start of the second line that a supplied grid may occupy
SolverSecondLine == 3
\* the same, on a grid whose first line is full
SolverBesideFullLine == 0
\* indices drawn in a row from one generator state
MaxDraws == 2
\* the longest array an index is drawn for
MaxItems == 7
\* results of recordMovement that are counted during one drag
MaxEmitted == 2

totalCells == gridSize * gridSize
Cells == 0 .. (totalCells - 1)

null == << >>
Some(v) == << v >>
Val(opt) == opt[1]

(***************************************************************************)
(* orientation.ts                                                          *)
(***************************************************************************)
DICE_ROTATIONS == << "left", "up", "right", "down" >>
Rotations == { DICE_ROTATIONS[i] : i \in 1 .. Len(DICE_ROTATIONS) }

Orientation == { "TOP", "NORTH", "EAST", "BOTTOM", "SOUTH", "WEST" }

ORIENTATION_OPPOSITE ==
  [ f \in Orientation |->
      CASE f = "TOP" -> "BOTTOM"
        [] f = "BOTTOM" -> "TOP"
        [] f = "NORTH" -> "SOUTH"
        [] f = "SOUTH" -> "NORTH"
        [] f = "EAST" -> "WEST"
        [] f = "WEST" -> "EAST" ]

DICE_DIGITS == << 1, 2, 3, 4, 5, 6 >>

XY_ORIENTATIONS ==
  << << "EAST", "NORTH", "TOP" >>,
     << "EAST", "SOUTH", "BOTTOM" >>,
     << "EAST", "TOP", "SOUTH" >>,
     << "EAST", "BOTTOM", "NORTH" >>,
     << "WEST", "NORTH", "BOTTOM" >>,
     << "WEST", "SOUTH", "TOP" >>,
     << "WEST", "TOP", "NORTH" >>,
     << "WEST", "BOTTOM", "SOUTH" >>,
     << "NORTH", "EAST", "BOTTOM" >>,
     << "NORTH", "WEST", "TOP" >>,
     << "NORTH", "TOP", "EAST" >>,
     << "NORTH", "BOTTOM", "WEST" >>,
     << "SOUTH", "EAST", "TOP" >>,
     << "SOUTH", "WEST", "BOTTOM" >>,
     << "SOUTH", "TOP", "WEST" >>,
     << "SOUTH", "BOTTOM", "EAST" >>,
     << "TOP", "EAST", "NORTH" >>,
     << "TOP", "WEST", "SOUTH" >>,
     << "TOP", "NORTH", "WEST" >>,
     << "TOP", "SOUTH", "EAST" >>,
     << "BOTTOM", "EAST", "SOUTH" >>,
     << "BOTTOM", "WEST", "NORTH" >>,
     << "BOTTOM", "NORTH", "EAST" >>,
     << "BOTTOM", "SOUTH", "WEST" >> >>

\* Z_FROM_XY.has(XY_KEY(x, y))
Z_FROM_XY_has(x, y) ==
  \E i \in 1 .. Len(XY_ORIENTATIONS) :
    XY_ORIENTATIONS[i][1] = x /\ XY_ORIENTATIONS[i][2] = y

\* Z_FROM_XY.get(XY_KEY(x, y)): a later entry of the same key would replace
\* an earlier one, so the last matching row decides
Z_FROM_XY(x, y) ==
  LET hits == { i \in 1 .. Len(XY_ORIENTATIONS) :
                  XY_ORIENTATIONS[i][1] = x /\ XY_ORIENTATIONS[i][2] = y }
      last == CHOOSE i \in hits : \A j \in hits : j <= i
  IN  IF hits = {} THEN "undefined" ELSE XY_ORIENTATIONS[last][3]

ROLL_TABLE ==
  [ d \in Rotations |->
      CASE d = "up" ->
             [ f \in { "TOP", "NORTH", "BOTTOM", "SOUTH" } |->
                 CASE f = "TOP" -> "NORTH"
                   [] f = "NORTH" -> "BOTTOM"
                   [] f = "BOTTOM" -> "SOUTH"
                   [] f = "SOUTH" -> "TOP" ]
        [] d = "down" ->
             [ f \in { "TOP", "NORTH", "BOTTOM", "SOUTH" } |->
                 CASE f = "TOP" -> "SOUTH"
                   [] f = "SOUTH" -> "BOTTOM"
                   [] f = "BOTTOM" -> "NORTH"
                   [] f = "NORTH" -> "TOP" ]
        [] d = "right" ->
             [ f \in { "TOP", "EAST", "BOTTOM", "WEST" } |->
                 CASE f = "TOP" -> "EAST"
                   [] f = "EAST" -> "BOTTOM"
                   [] f = "BOTTOM" -> "WEST"
                   [] f = "WEST" -> "TOP" ]
        [] d = "left" ->
             [ f \in { "TOP", "EAST", "BOTTOM", "WEST" } |->
                 CASE f = "TOP" -> "WEST"
                   [] f = "WEST" -> "BOTTOM"
                   [] f = "BOTTOM" -> "EAST"
                   [] f = "EAST" -> "TOP" ] ]

\* the value standing for the Error thrown by the CubeOrientation constructor
InvalidOrientation == [ x |-> "INVALID", y |-> "INVALID" ]

\* mutant of CubeOrientation: the constructor does not look the pair up
CubeOrientation_unchecked(x, y) == [ x |-> x, y |-> y ]

\* new CubeOrientation(x, y)
CubeOrientation(x, y) ==
  IF Z_FROM_XY_has(x, y) THEN [ x |-> x, y |-> y ] ELSE InvalidOrientation

\* mutant of z: the third label is the opposite one whenever x is TOP or
\* BOTTOM
z_mirroredWhenUpright(o) ==
  IF o.x \in { "TOP", "BOTTOM" } THEN ORIENTATION_OPPOSITE[Z_FROM_XY(o.x, o.y)]
  ELSE Z_FROM_XY(o.x, o.y)

\* get z()
z(o) == Z_FROM_XY(o.x, o.y)

\* mutant of rotate: the "left" rotation looks up the table of "right"
rotate_leftUsesRightTable(direction, f) ==
  LET table == IF direction = "left" THEN ROLL_TABLE["right"] ELSE ROLL_TABLE[direction]
  IN  IF f \in DOMAIN table THEN table[f] ELSE f

\* mutant of rotate: the entry of "TOP" is missing from every table, so the
\* `?? orientation` fallback keeps it
rotate_topEntryMissing(direction, f) ==
  IF f # "TOP" /\ f \in DOMAIN ROLL_TABLE[direction] THEN ROLL_TABLE[direction][f] ELSE f

\* the `rotate` closure of roll: table?.[orientation] ?? orientation
rotate(direction, f) ==
  IF f \in DOMAIN ROLL_TABLE[direction] THEN ROLL_TABLE[direction][f] ELSE f

\* mutant of roll: the table of the direction is applied twice
roll_halfTurn(o, direction) ==
  CubeOrientation(rotate(direction, rotate(direction, o.x)),
                  rotate(direction, rotate(direction, o.y)))

\* mutant of roll: "up" rolls like "down"
roll_upLikeDown(o, direction) ==
  LET used == IF direction = "up" THEN "down" ELSE direction
  IN  CubeOrientation(rotate(used, o.x), rotate(used, o.y))

\* mutant of roll: the direction is ignored and the "left" table is used
roll_alwaysLeft(o, direction) ==
  CubeOrientation(rotate("left", o.x), rotate("left", o.y))

\* CubeOrientation.roll(direction)
roll(o, direction) ==
  CubeOrientation(rotate(direction, o.x), rotate(direction, o.y))

\* CubeOrientation.identity()
identity == CubeOrientation("EAST", "NORTH")

ALL_ORIENTATIONS ==
  [ i \in 1 .. Len(XY_ORIENTATIONS) |->
      CubeOrientation(XY_ORIENTATIONS[i][1], XY_ORIENTATIONS[i][2]) ]

LegalOrientations == { ALL_ORIENTATIONS[i] : i \in 1 .. Len(ALL_ORIENTATIONS) }

\* mutant of DIGIT_ORIENTATION_PREDICATES: the predicate of 2 tests y against
\* TOP, like the predicate of 5
DIGIT_ORIENTATION_PREDICATES_twoLikeFive(digit, o) ==
  CASE digit = 1 -> z(o) = "TOP"
    [] digit = 2 -> o.y = "TOP"
    [] digit = 3 -> o.x = "TOP"
    [] digit = 4 -> o.x = "BOTTOM"
    [] digit = 5 -> o.y = "TOP"
    [] digit = 6 -> z(o) = "BOTTOM"

DIGIT_ORIENTATION_PREDICATES(digit, o) ==
  CASE digit = 1 -> z(o) = "TOP"
    [] digit = 2 -> o.y = "BOTTOM"
    [] digit = 3 -> o.x = "TOP"
    [] digit = 4 -> o.x = "BOTTOM"
    [] digit = 5 -> o.y = "TOP"
    [] digit = 6 -> z(o) = "BOTTOM"

\* ORIENTATIONS_FOR_TOP_DIGIT[digit], in the order of ALL_ORIENTATIONS
ORIENTATIONS_FOR_TOP_DIGIT(digit) ==
  SelectSeq(ALL_ORIENTATIONS, LAMBDA o : DIGIT_ORIENTATION_PREDICATES(digit, o))

\* ORIENTATION_INDEX_BY_KEY.get(orientation.key): the 0-based index in
\* ALL_ORIENTATIONS, or undefined (null)
ORIENTATION_INDEX_BY_KEY(o) ==
  LET hits == { i \in 1 .. Len(ALL_ORIENTATIONS) : ALL_ORIENTATIONS[i] = o }
  IN  IF hits = {} THEN null
      ELSE Some((CHOOSE i \in hits : \A j \in hits : j <= i) - 1)

RECURSIVE expandRotations(_, _, _, _)
\* mutant of expandRotations: the rotations are tried from the last of
\* DICE_ROTATIONS to the first
expandRotations_lastFirst(entry, k, queue, visited) ==
  IF k > Len(DICE_ROTATIONS) THEN [ queue |-> queue, visited |-> visited ]
  ELSE LET rotation == DICE_ROTATIONS[Len(DICE_ROTATIONS) + 1 - k]
           next == roll(entry.orientation, rotation)
       IN  IF next \in visited
           THEN expandRotations(entry, k + 1, queue, visited)
           ELSE expandRotations(entry, k + 1,
                                Append(queue, [ orientation |-> next,
                                                sequence |-> Append(entry.sequence, rotation) ]),
                                visited \cup { next })

\* the `for (const rotation of DICE_ROTATIONS)` loop of the search, at the
\* k-th rotation; st = [queue, visited]
expandRotations(entry, k, queue, visited) ==
  IF k > Len(DICE_ROTATIONS) THEN [ queue |-> queue, visited |-> visited ]
  ELSE LET rotation == DICE_ROTATIONS[k]
           next == roll(entry.orientation, rotation)
       IN  IF next \in visited
           THEN expandRotations(entry, k + 1, queue, visited)
           ELSE expandRotations(entry, k + 1,
                                Append(queue, [ orientation |-> next,
                                                sequence |-> Append(entry.sequence, rotation) ]),
                                visited \cup { next })

RECURSIVE searchRotationSequences(_, _, _)
\* mutant of searchRotationSequences: the entry taken from the queue is the
\* last one pushed, not the first
searchRotationSequences_lastPushed(queue, visited, sequences) ==
  IF Len(queue) = 0 THEN sequences
  ELSE LET entry == queue[Len(queue)]
           index == ORIENTATION_INDEX_BY_KEY(entry.orientation)
           sequences1 == IF index # null /\ Len(sequences[Val(index) + 1]) = 0
                         THEN [ sequences EXCEPT ![Val(index) + 1] = entry.sequence ]
                         ELSE sequences
           expanded == expandRotations(entry, 1, SubSeq(queue, 1, Len(queue) - 1), visited)
       IN  searchRotationSequences(expanded.queue, expanded.visited, sequences1)

\* the `while (queue.length > 0)` loop that fills `sequences`
searchRotationSequences(queue, visited, sequences) ==
  IF Len(queue) = 0 THEN sequences
  ELSE LET entry == Head(queue)
           index == ORIENTATION_INDEX_BY_KEY(entry.orientation)
           sequences1 == IF index # null /\ Len(sequences[Val(index) + 1]) = 0
                         THEN [ sequences EXCEPT ![Val(index) + 1] = entry.sequence ]
                         ELSE sequences
           expanded == expandRotations(entry, 1, Tail(queue), visited)
       IN  searchRotationSequences(expanded.queue, expanded.visited, sequences1)

\* ORIENTATION_ROTATION_SEQUENCES, computed once, breadth first from the
\* default orientation
ORIENTATION_ROTATION_SEQUENCES ==
  searchRotationSequences(<< [ orientation |-> identity, sequence |-> << >> ] >>,
                          { identity },
                          [ i \in 1 .. Len(ALL_ORIENTATIONS) |-> << >> ])

\* mutant of getRotationSequence: the sequence of the next orientation of
\* ALL_ORIENTATIONS is returned
getRotationSequence_nextIndex(o) ==
  LET index == ORIENTATION_INDEX_BY_KEY(o)
  IN  IF index = null THEN << >>
      ELSE ORIENTATION_ROTATION_SEQUENCES[((Val(index) + 1) % Len(ALL_ORIENTATIONS)) + 1]

\* getRotationSequence(orientation)
getRotationSequence(o) ==
  LET index == ORIENTATION_INDEX_BY_KEY(o)
  IN  IF index = null THEN << >> ELSE ORIENTATION_ROTATION_SEQUENCES[Val(index) + 1]

(***************************************************************************)
(* diceController.ts: constants                                            *)
(***************************************************************************)
ROLL_DURATION_MS == 320
INVALID_HIGHLIGHT_DURATION_MS == 600

INVERSE_ROTATION ==
  [ d \in Rotations |->
      CASE d = "left" -> "right"
        [] d = "right" -> "left"
        [] d = "up" -> "down"
        [] d = "down" -> "up" ]

\* the value standing for the Error thrown by getTopFaceValueFromOrientation
NoTopFace == 0

\* getTopFaceValueFromOrientation: the first digit whose predicate holds
getTopFaceValueFromOrientation(o) ==
  LET hits == { i \in 1 .. Len(DICE_DIGITS) :
                  DIGIT_ORIENTATION_PREDICATES(DICE_DIGITS[i], o) }
  IN  IF hits = {} THEN NoTopFace
      ELSE DICE_DIGITS[CHOOSE i \in hits : \A j \in hits : i <= j]

(***************************************************************************)
(* diceController.ts: the seeded generator                                 *)
(***************************************************************************)
LIMB == 65536
LCG_MULTIPLIER == 1664525
LCG_INCREMENT == 1013904223

\* RANDOM_SEED = 0xdeadbeef
RANDOM_SEED == [ hi |-> 57005, lo |-> 48879 ]

\* A Number that holds an integer below 2^63, as three limbs:
\* top * 2^32 + mid * 2^16 + low.  A Number has 53 significant bits, so the
\* integer is held exactly when top < 2^21.
\* the bits of `top` above the 21 that leave the value exact
RECURSIVE excessBits(_)
excessBits(top) == IF top < 2 ^ 21 THEN 0 ELSE 1 + excessBits(top \div 2)

\* carries of the limbs after an addition to the low limb
normalise(top, mid, low) ==
  [ top |-> top + ((mid + (low \div LIMB)) \div LIMB),
    mid |-> (mid + (low \div LIMB)) % LIMB,
    low |-> low % LIMB ]

\* mutant of toNumber: a Number has 24 significant bits
toNumber_single(v) ==
  IF v.top # 0 \/ v.mid >= 256
  THEN [ top |-> v.top, mid |-> (v.mid \div 256) * 256, low |-> 0 ]
  ELSE v

\* the Number nearest to the integer v, ties to the even one: the result of
\* an arithmetic operation whose exact value is v
toNumber(v) ==
  IF excessBits(v.top) = 0 THEN v
  ELSE LET unit == 2 ^ excessBits(v.top)
           kept == v.low \div unit
           rest == v.low % unit
           up == rest * 2 > unit \/ (rest * 2 = unit /\ kept % 2 = 1)
       IN  normalise(v.top, v.mid, (IF up THEN kept + 1 ELSE kept) * unit)

\* rngState * a
times(s, a) ==
  LET low == s.lo * (a % LIMB)
      mid == (low \div LIMB) + s.lo * (a \div LIMB) + s.hi * (a % LIMB)
  IN  toNumber([ top |-> (mid \div LIMB) + s.hi * (a \div LIMB),
                 mid |-> mid % LIMB,
                 low |-> low % LIMB ])

\* v + c
plus(v, c) == toNumber(normalise(v.top, v.mid + (c \div LIMB), v.low + (c % LIMB)))

\* v >>> 0
toUint32(v) == [ hi |-> v.mid, lo |-> v.low ]

\* seededRandom(): the new rngState, (rngState * 1664525 + 1013904223) >>> 0
seededRandom(s) == toUint32(plus(times(s, LCG_MULTIPLIER), LCG_INCREMENT))

\* Math.floor((rngState / 0x100000000) * n) for the rngState s just produced
floorTimes(s, n) == times(s, n).top

RECURSIVE rollTimes(_, _, _, _)
\* the loop of randomDiceOrientation: i rotations still to draw
rollTimes(o, rng, i, count) ==
  IF i >= count THEN [ orientation |-> o, rng |-> rng ]
  ELSE LET s == seededRandom(rng)
           rotation == DICE_ROTATIONS[floorTimes(s, Len(DICE_ROTATIONS)) + 1]
       IN  rollTimes(roll(o, rotation), s, i + 1, count)

\* randomDiceOrientation()
randomDiceOrientation(rng) ==
  LET s == seededRandom(rng)
      rotationCount == 1 + floorTimes(s, 3)
  IN  rollTimes(identity, s, 0, rotationCount)

RECURSIVE shuffleFrom(_, _, _)
\* the loop of shuffleArray, at index i (0-based)
shuffleFrom(array, rng, i) ==
  IF i <= 0 THEN [ array |-> array, rng |-> rng ]
  ELSE LET s == seededRandom(rng)
           j == floorTimes(s, i + 1)
           swapped == [ array EXCEPT ![i + 1] = array[j + 1], ![j + 1] = array[i + 1] ]
       IN  shuffleFrom(swapped, s, i - 1)

\* shuffleArray(items)
shuffleArray(items, rng) == shuffleFrom(items, rng, Len(items) - 1)

\* pickRandomElement(items)
pickRandomElement(items, rng) ==
  LET s == seededRandom(rng)
  IN  [ item |-> items[floorTimes(s, Len(items)) + 1], rng |-> s ]

(***************************************************************************)
(* diceController.ts: the Latin-square solver and the board setup          *)
(***************************************************************************)
\* a Grid is a sequence of rows, each a sequence of the characters "#", "."
gridHeight(grid) == Len(grid)
gridWidth(grid) == IF Len(grid) > 0 THEN Len(grid[1]) ELSE gridSize

\* the nested loops collecting `positions` in row-major order
gridPositions(grid) ==
  LET height == gridHeight(grid)
      width == gridWidth(grid)
      all == [ k \in 1 .. (height * width) |->
                 [ row |-> (k - 1) \div width, col |-> (k - 1) % width ] ]
  IN  SelectSeq(all, LAMBDA p : grid[p.row + 1][p.col + 1] = "#")

RECURSIVE solve(_, _, _, _)
RECURSIVE solveOptions(_, _, _, _, _, _)
\* mutant of solve: the options are filtered by the digits of the row only
solve_ignoresColumns(orderedPositions, width, index, st) ==
  IF index = Len(orderedPositions) THEN [ ok |-> TRUE, st |-> st ]
  ELSE LET row == orderedPositions[index + 1].row
           options == SelectSeq(DICE_DIGITS, LAMBDA digit : digit \notin st.rowUsed[row])
           shuffled == shuffleArray(options, st.rng)
           st1 == [ st EXCEPT !.rng = shuffled.rng ]
       IN  IF Len(shuffled.array) = 0 THEN [ ok |-> FALSE, st |-> st1 ]
           ELSE solveOptions(orderedPositions, width, index, shuffled.array, 1, st1)

\* the closure `solve(index)`; st = [assignments, rowUsed, colUsed, rng]
solve(orderedPositions, width, index, st) ==
  IF index = Len(orderedPositions) THEN [ ok |-> TRUE, st |-> st ]
  ELSE LET row == orderedPositions[index + 1].row
           col == orderedPositions[index + 1].col
           options == SelectSeq(DICE_DIGITS,
                        LAMBDA digit : digit \notin st.rowUsed[row]
                                       /\ digit \notin st.colUsed[col])
           shuffled == shuffleArray(options, st.rng)
           st1 == [ st EXCEPT !.rng = shuffled.rng ]
       IN  IF Len(shuffled.array) = 0 THEN [ ok |-> FALSE, st |-> st1 ]
           ELSE solveOptions(orderedPositions, width, index, shuffled.array, 1, st1)

\* mutant of solveOptions: the loop gives up after the first option
solveOptions_firstOnly(orderedPositions, width, index, shuffledOptions, k, st) ==
  IF k > 1 THEN [ ok |-> FALSE, st |-> st ]
  ELSE LET row == orderedPositions[index + 1].row
           col == orderedPositions[index + 1].col
           cellIndex == row * width + col
           digit == shuffledOptions[k]
           assigned == [ st EXCEPT !.assignments[cellIndex] = Some(digit),
                                   !.rowUsed[row] = @ \cup { digit },
                                   !.colUsed[col] = @ \cup { digit } ]
           sub == solve(orderedPositions, width, index + 1, assigned)
           undone == [ sub.st EXCEPT !.assignments[cellIndex] = null,
                                     !.rowUsed[row] = @ \ { digit },
                                     !.colUsed[col] = @ \ { digit } ]
       IN  IF sub.ok THEN sub ELSE [ ok |-> FALSE, st |-> undone ]

\* the `for (const digit of shuffledOptions)` loop of solve, at option k
solveOptions(orderedPositions, width, index, shuffledOptions, k, st) ==
  IF k > Len(shuffledOptions) THEN [ ok |-> FALSE, st |-> st ]
  ELSE LET row == orderedPositions[index + 1].row
           col == orderedPositions[index + 1].col
           cellIndex == row * width + col
           digit == shuffledOptions[k]
           assigned == [ st EXCEPT !.assignments[cellIndex] = Some(digit),
                                   !.rowUsed[row] = @ \cup { digit },
                                   !.colUsed[col] = @ \cup { digit } ]
           sub == solve(orderedPositions, width, index + 1, assigned)
           undone == [ sub.st EXCEPT !.assignments[cellIndex] = null,
                                     !.rowUsed[row] = @ \ { digit },
                                     !.colUsed[col] = @ \ { digit } ]
       IN  IF sub.ok THEN sub
           ELSE solveOptions(orderedPositions, width, index, shuffledOptions, k + 1, undone)

\* buildPartialLatinSquare(grid) of a controller whose gridSize field is
\* `size`: error is "" when it returns, else the message of the Error it
\* throws
buildPartialLatinSquareFor(size, grid, rng) ==
  LET height == gridHeight(grid)
      width == gridWidth(grid)
      cells == 0 .. (size * size - 1)
  IN  IF height # size \/ width # size
      THEN [ error |-> "Grid dimensions mismatch when building Latin square.",
             assignments |-> [ c \in cells |-> null ], rng |-> rng ]
      ELSE LET ordered == shuffleArray(gridPositions(grid), rng)
               st0 == [ assignments |-> [ c \in cells |-> null ],
                        rowUsed |-> [ r \in 0 .. (height - 1) |-> {} ],
                        colUsed |-> [ c \in 0 .. (width - 1) |-> {} ],
                        rng |-> ordered.rng ]
               res == solve(ordered.array, width, 0, st0)
           IN  IF res.ok
               THEN [ error |-> "", assignments |-> res.st.assignments, rng |-> res.st.rng ]
               ELSE [ error |-> "Unable to complete Latin square for that grid.",
                      assignments |-> res.st.assignments, rng |-> res.st.rng ]

\* buildPartialLatinSquare(grid) of the controller of the board
buildPartialLatinSquare(grid, rng) == buildPartialLatinSquareFor(gridSize, grid, rng)

\* mutant of randomOrientationForTopValue: the candidates are the
\* orientations showing the opposite face of the die, 7 - value
randomOrientationForTopValue_oppositeFace(value, rng) ==
  pickRandomElement(ORIENTATIONS_FOR_TOP_DIGIT(7 - value), rng)

\* randomOrientationForTopValue(value)
randomOrientationForTopValue(value, rng) ==
  pickRandomElement(ORIENTATIONS_FOR_TOP_DIGIT(value), rng)

\* one iteration of the inner loop of setDiceMaskFromGrid, for the n-th cell
\* of the grid in row-major order; a throw ends the loops, so an iteration
\* after it does nothing
fillCell(size, grid, latinAssignment, n, st) ==
  LET width == gridWidth(grid)
      row == n \div width
      col == n % width
      cellIndex == row * size + col
      hasDice == grid[row + 1][col + 1] = "#"
      mask1 == [ st.mask EXCEPT ![cellIndex] = hasDice ]
      pick == randomOrientationForTopValue(Val(latinAssignment[cellIndex]), st.rng)
  IN  IF st.error # "" THEN st
      ELSE IF ~hasDice THEN [ st EXCEPT !.mask = mask1 ]
      ELSE IF latinAssignment[cellIndex] = null
      THEN [ st EXCEPT
               !.error = "Dice cell missing top-face digit after Latin square generation.",
               !.mask = mask1 ]
      ELSE [ error |-> "", mask |-> mask1,
             orientations |-> [ st.orientations EXCEPT ![cellIndex] = pick.item ],
             rng |-> pick.rng ]

\* the iterations from .. to - 1 of the loops of setDiceMaskFromGrid, in order:
\* the second half of the range starts from the state the first half ends in,
\* unless the first half threw
RECURSIVE fillCells(_, _, _, _, _, _)
fillCells(size, grid, latinAssignment, from, to, st) ==
  IF to <= from THEN st
  ELSE IF to = from + 1 THEN fillCell(size, grid, latinAssignment, from, st)
  ELSE LET mid == (from + to) \div 2
           first == fillCells(size, grid, latinAssignment, from, mid, st)
       IN  IF first.error # "" THEN first
           ELSE fillCells(size, grid, latinAssignment, mid, to, first)

\* the nested loops of setDiceMaskFromGrid from the k-th cell in row-major
\* order on, in a controller whose gridSize field is `size`
fillFromGridFor(size, grid, latinAssignment, k, mask, orientations, rng) ==
  fillCells(size, grid, latinAssignment, k, gridHeight(grid) * gridWidth(grid),
            [ error |-> "", mask |-> mask, orientations |-> orientations, rng |-> rng ])

\* the nested loops of setDiceMaskFromGrid in the controller of the board
fillFromGrid(grid, latinAssignment, k, mask, orientations, rng) ==
  fillFromGridFor(gridSize, grid, latinAssignment, k, mask, orientations, rng)

\* what a call of setDiceMaskFromGrid leaves: the fields as `filled` has
\* them, and the assignment the solver made
setupResult(filled, latinAssignment) ==
  [ error |-> filled.error, mask |-> filled.mask, orientations |-> filled.orientations,
    rng |-> filled.rng, latinAssignment |-> latinAssignment ]

\* mutant of setDiceMaskFromLatin: the mask is cleared before the solver is
\* asked
setDiceMaskFromLatin_clearsMaskFirst(size, grid, mask, orientations, latin) ==
  IF latin.error # ""
  THEN [ error |-> latin.error, mask |-> [ c \in DOMAIN mask |-> FALSE ],
         orientations |-> orientations, rng |-> latin.rng,
         latinAssignment |-> latin.assignments ]
  ELSE setupResult(fillFromGridFor(size, grid, latin.assignments, 0, mask, orientations,
                                   latin.rng),
                   latin.assignments)

\* setDiceMaskFromGrid(grid) once buildPartialLatinSquare has returned or
\* thrown, `latin` being its outcome
setDiceMaskFromLatin(size, grid, mask, orientations, latin) ==
  IF latin.error # ""
  THEN [ error |-> latin.error, mask |-> mask, orientations |-> orientations,
         rng |-> latin.rng, latinAssignment |-> latin.assignments ]
  ELSE setupResult(fillFromGridFor(size, grid, latin.assignments, 0, mask, orientations,
                                   latin.rng),
                   latin.assignments)

\* setDiceMaskFromGrid(grid) applied to the fields (mask, orientations, rng)
\* of a controller whose gridSize field is `size`
setDiceMaskFromGridFor(size, grid, mask, orientations, rng) ==
  setDiceMaskFromLatin(size, grid, mask, orientations,
                       buildPartialLatinSquareFor(size, grid, rng))

\* setDiceMaskFromGrid(grid) applied to the fields of the controller of the
\* board
setDiceMaskFromGrid(grid, mask, orientations, rng) ==
  setDiceMaskFromGridFor(gridSize, grid, mask, orientations, rng)

\* the elements from .. to - 1 of Array.from({ length: totalCells }, () =>
\* randomDiceOrientation()), in order: the second half of the range starts
\* from the state `first` the first half ends in
RECURSIVE constructSpan(_, _, _)
constructSpan(from, to, st) ==
  IF to <= from THEN st
  ELSE IF to = from + 1
  THEN LET r == randomDiceOrientation(st.rng)
       IN  [ orientations |-> [ st.orientations EXCEPT ![from] = r.orientation ],
             rng |-> r.rng ]
  ELSE LET mid == (from + to) \div 2
       IN  CHOOSE last \in { constructSpan(mid, to, first) :
                               first \in { constructSpan(from, mid, st) } } : TRUE

\* Array.from({ length: totalCells }, () => randomDiceOrientation()) with
\* totalCells = size * size, from element k on
constructOrientationsFor(size, k, orientations, rng) ==
  constructSpan(k, size * size, [ orientations |-> orientations, rng |-> rng ])

\* Array.from({ length: totalCells }, () => randomDiceOrientation()) on the
\* board
constructOrientations(k, orientations, rng) ==
  constructOrientationsFor(gridSize, k, orientations, rng)

\* new DiceController(size, seed)
constructorFor(size, seed) ==
  LET cells == 0 .. (size * size - 1)
      built == constructOrientationsFor(size, 0, [ c \in cells |-> identity ], seed)
  IN  [ diceCellsMask |-> [ c \in cells |-> FALSE ],
        diceOrientations |-> built.orientations,
        rngState |-> built.rng ]

\* new DiceController(gridSize, seed)
constructor(seed) == constructorFor(gridSize, seed)

(***************************************************************************)
(* diceController.ts: board queries                                        *)
(***************************************************************************)
\* mutant of getTopFaceValue: the orientation stored for the cell is read
\* whether or not a die is on it
getTopFaceValue_ignoresMask(mask, orientations, cellIndex) ==
  IF cellIndex \notin DOMAIN mask THEN null
  ELSE Some(getTopFaceValueFromOrientation(orientations[cellIndex]))

\* getTopFaceValue(cellIndex) on a board (mask, orientations)
getTopFaceValue(mask, orientations, cellIndex) ==
  IF cellIndex \notin DOMAIN mask \/ ~mask[cellIndex] THEN null
  ELSE Some(getTopFaceValueFromOrientation(orientations[cellIndex]))

\* getTopFaceValues() on a board (mask, orientations)
getTopFaceValues(mask, orientations) ==
  [ index \in DOMAIN mask |-> getTopFaceValue(mask, orientations, index) ]

RECURSIVE latinScan(_, _, _, _, _)
\* the loop of isLatinSquareValid, at cell `index`
latinScan(mask, orientations, index, rowSets, colSets) ==
  IF index >= totalCells THEN TRUE
  ELSE IF ~mask[index] THEN latinScan(mask, orientations, index + 1, rowSets, colSets)
  ELSE LET value == getTopFaceValue(mask, orientations, index)
           row == index \div gridSize
           col == index % gridSize
       IN  IF value = null THEN latinScan(mask, orientations, index + 1, rowSets, colSets)
           ELSE IF Val(value) \in rowSets[row] \/ Val(value) \in colSets[col] THEN FALSE
           ELSE latinScan(mask, orientations, index + 1,
                          [ rowSets EXCEPT ![row] = @ \cup { Val(value) } ],
                          [ colSets EXCEPT ![col] = @ \cup { Val(value) } ])

\* mutant of isLatinSquareValid: only the digits of a row are compared
isLatinSquareValid_rowsOnly(mask, orientations) ==
  \A a, b \in DOMAIN mask :
    (a # b /\ mask[a] /\ mask[b] /\ a \div gridSize = b \div gridSize)
      => getTopFaceValueFromOrientation(orientations[a])
           # getTopFaceValueFromOrientation(orientations[b])

\* mutant of isLatinSquareValid: one set of seen digits for the whole board
isLatinSquareValid_oneSet(mask, orientations) ==
  \A a, b \in DOMAIN mask :
    (a # b /\ mask[a] /\ mask[b])
      => getTopFaceValueFromOrientation(orientations[a])
           # getTopFaceValueFromOrientation(orientations[b])

\* isLatinSquareValid() on a board (mask, orientations)
isLatinSquareValid(mask, orientations) ==
  latinScan(mask, orientations, 0,
            [ r \in 0 .. (gridSize - 1) |-> {} ], [ c \in 0 .. (gridSize - 1) |-> {} ])

\* mutant of getTargetCellIndex: the bounds are checked on the row-major
\* index, not on the row and the column
getTargetCellIndex_indexBounds(cellIndex, rotation) ==
  LET target == CASE rotation = "left" -> cellIndex - 1
                  [] rotation = "right" -> cellIndex + 1
                  [] rotation = "up" -> cellIndex - gridSize
                  [] rotation = "down" -> cellIndex + gridSize
                  [] OTHER -> cellIndex
  IN  IF target < 0 \/ target >= totalCells THEN null ELSE Some(target)

\* getTargetCellIndex(cellIndex, rotation)
getTargetCellIndex(cellIndex, rotation) ==
  LET row == cellIndex \div gridSize
      col == cellIndex % gridSize
      targetRow == CASE rotation = "up" -> row - 1
                     [] rotation = "down" -> row + 1
                     [] OTHER -> row
      targetCol == CASE rotation = "left" -> col - 1
                     [] rotation = "right" -> col + 1
                     [] OTHER -> col
  IN  IF targetRow < 0 \/ targetRow >= gridSize \/ targetCol < 0 \/ targetCol >= gridSize
      THEN null
      ELSE Some(targetRow * gridSize + targetCol)

(***************************************************************************)
(* diceController.ts: the movement state machine                           *)
(***************************************************************************)
VARIABLES
  diceCellsMask,           \* boolean[]: a die stands on the cell
  diceOrientations,        \* CubeOrientation[]
  rngState,                \* the generator's 32-bit state
  rollingState,            \* RollingState | null
  pendingRollback,         \* PendingRollback | null
  invalidHighlightCell,    \* number | null
  invalidHighlightExpiry,  \* number
  now,                     \* the value performance.now() returns
  loaded,                  \* history: setDiceMaskFromGrid has been called
  lastCall,                \* history: the last call and the exit it took
  rollingIssuedBy,         \* history: who created the Rolling State
  lastFinalized,           \* history: the last roll finalized and the board before it
  moves,                   \* history: requests that started a roll
  lastSetup,               \* history: the grid of setDiceMaskFromGrid and the solver's answer
  walk,                    \* an orientation built from two labels and the rolls applied to it
  generator,               \* a generator state and the indices drawn from it
  twin,                    \* a second controller
  interaction,             \* the fields of the InteractionController
  drag,                    \* history: what recordMovement has returned during the drag
  search                   \* the activations of the solver's recursive step

controller == << diceCellsMask, diceOrientations, rngState, rollingState,
                 pendingRollback, invalidHighlightCell, invalidHighlightExpiry >>
\* the variables of the pointer and of the solver's search
others == << interaction, drag, search >>
vars == << diceCellsMask, diceOrientations, rngState, rollingState,
           pendingRollback, invalidHighlightCell, invalidHighlightExpiry,
           now, loaded, lastCall, rollingIssuedBy, lastFinalized, moves,
           lastSetup, walk, generator, twin, interaction, drag, search >>

\* the seeds given to the constructor: main.ts passes none, so the default
\* RANDOM_SEED is the only one
Seeds == { RANDOM_SEED }

GridRows == [ 1 .. gridSize -> { "#", "." } ]
\* the grids handed to setDiceMaskFromGrid: gridSize x gridSize, 1..MaxDice dice
Grids ==
  { g \in [ 1 .. gridSize -> GridRows ] :
      LET n == Cardinality({ rc \in (1 .. gridSize) \X (1 .. gridSize) :
                               g[rc[1]][rc[2]] = "#" })
      IN  n >= 1 /\ n <= MaxDice }

\* a call and the exit (return point) it took
Call(op, exit) == [ op |-> op, exit |-> exit ]

\* no orientation has been built yet
NoWalk == [ labels |-> << >>, start |-> InvalidOrientation, steps |-> << >>,
            at |-> << >>, top |-> NoTopFace, sequence |-> << >> ]

\* no generator state has been chosen yet
NoGenerator == [ state |-> null, draws |-> << >> ]

\* no second controller has been constructed yet
NoTwin == null

\* new InteractionController(threshold): the initial values of its fields
NoInteraction == [ hoveredDiceCell |-> null, activeDragCell |-> null,
                   lastDragPoint |-> null, dragRotationApplied |-> FALSE ]

\* no drag has been started and recordMovement has not been called
NoDrag == [ startedOn |-> null, emitted |-> 0, last |-> null ]

\* the solver has not been entered
NoSearch == null

\* the state after `new DiceController(size)`
InitFor(size) ==
  \E seed \in Seeds :
    LET c == constructorFor(size, seed)
    IN  /\ diceCellsMask = c.diceCellsMask
        /\ diceOrientations = c.diceOrientations
        /\ rngState = c.rngState
        /\ rollingState = null
        /\ pendingRollback = null
        /\ invalidHighlightCell = null
        /\ invalidHighlightExpiry = 0
        /\ now = 0
        /\ loaded = FALSE
        /\ lastCall = Call("new", "")
        /\ rollingIssuedBy = ""
        /\ lastFinalized = null
        /\ moves = 0
        /\ lastSetup = null
        /\ walk = NoWalk
        /\ generator = NoGenerator
        /\ twin = NoTwin
        /\ interaction = NoInteraction
        /\ drag = NoDrag
        /\ search = NoSearch

\* main.ts: new DiceController(GRID_SIZE)
Init == InitFor(gridSize)

\* the fields a call of setDiceMaskFromGrid(grid) with outcome r leaves
SetupOutcome(grid, r) ==
  /\ diceCellsMask' = r.mask
  /\ diceOrientations' = r.orientations
  /\ rngState' = r.rng
  /\ lastCall' = Call("setDiceMaskFromGrid", r.error)
  /\ lastSetup' = Some([ grid |-> grid, error |-> r.error,
                         latinAssignment |-> r.latinAssignment ])

\* setDiceMaskFromGrid(grid) on a controller whose gridSize field is `size`,
\* called once
SetDiceMaskFromGridFor(size, grid) ==
  /\ ~loaded
  /\ SetupOutcome(grid, setDiceMaskFromGridFor(size, grid, diceCellsMask,
                                               diceOrientations, rngState))
  /\ loaded' = TRUE
  /\ UNCHANGED << rollingState, pendingRollback, invalidHighlightCell,
                  invalidHighlightExpiry, now, rollingIssuedBy, lastFinalized, moves,
                  walk, generator, twin, others >>

\* main.ts loadAndSelectSolution: diceController.setDiceMaskFromGrid(startGrid),
\* called once
SetDiceMaskFromGrid(grid) == SetDiceMaskFromGridFor(gridSize, grid)

\* mutant of startRollingAnimation: no check of the pending rollback
startRollingAnimation_ignoresPending(mask, pending, rolling, cellIndex, rotation, time) ==
  IF cellIndex \notin DOMAIN mask \/ ~mask[cellIndex]
  THEN [ rollingState |-> rolling, exit |-> "no die" ]
  ELSE LET targetCellIndex == getTargetCellIndex(cellIndex, rotation)
       IN  IF targetCellIndex = null \/ mask[Val(targetCellIndex)]
           THEN [ rollingState |-> rolling, exit |-> "no target" ]
           ELSE [ rollingState |-> Some([ cellIndex |-> cellIndex,
                                          targetCellIndex |-> Val(targetCellIndex),
                                          rotation |-> rotation,
                                          startTime |-> time ]),
                  exit |-> "started" ]

\* mutant of startRollingAnimation: the Rolling State records the source cell
\* as its target
startRollingAnimation_targetIsSource(mask, pending, rolling, cellIndex, rotation, time) ==
  IF cellIndex \notin DOMAIN mask \/ ~mask[cellIndex]
  THEN [ rollingState |-> rolling, exit |-> "no die" ]
  ELSE IF pending # null
  THEN [ rollingState |-> rolling, exit |-> "rollback pending" ]
  ELSE LET targetCellIndex == getTargetCellIndex(cellIndex, rotation)
       IN  IF targetCellIndex = null \/ mask[Val(targetCellIndex)]
           THEN [ rollingState |-> rolling, exit |-> "no target" ]
           ELSE [ rollingState |-> Some([ cellIndex |-> cellIndex,
                                          targetCellIndex |-> cellIndex,
                                          rotation |-> rotation,
                                          startTime |-> time ]),
                  exit |-> "started" ]

\* mutant of startRollingAnimation: a target that holds a die is accepted
startRollingAnimation_ontoDie(mask, pending, rolling, cellIndex, rotation, time) ==
  IF cellIndex \notin DOMAIN mask \/ ~mask[cellIndex]
  THEN [ rollingState |-> rolling, exit |-> "no die" ]
  ELSE IF pending # null
  THEN [ rollingState |-> rolling, exit |-> "rollback pending" ]
  ELSE LET targetCellIndex == getTargetCellIndex(cellIndex, rotation)
       IN  IF targetCellIndex = null
           THEN [ rollingState |-> rolling, exit |-> "no target" ]
           ELSE [ rollingState |-> Some([ cellIndex |-> cellIndex,
                                          targetCellIndex |-> Val(targetCellIndex),
                                          rotation |-> rotation,
                                          startTime |-> time ]),
                  exit |-> "started" ]

\* startRollingAnimation(cellIndex, rotation): the rollingState it leaves and
\* the return it took
startRollingAnimation(mask, pending, rolling, cellIndex, rotation, time) ==
  IF cellIndex \notin DOMAIN mask \/ ~mask[cellIndex]
  THEN [ rollingState |-> rolling, exit |-> "no die" ]
  ELSE IF pending # null
  THEN [ rollingState |-> rolling, exit |-> "rollback pending" ]
  ELSE LET targetCellIndex == getTargetCellIndex(cellIndex, rotation)
       IN  IF targetCellIndex = null \/ mask[Val(targetCellIndex)]
           THEN [ rollingState |-> rolling, exit |-> "no target" ]
           ELSE [ rollingState |-> Some([ cellIndex |-> cellIndex,
                                          targetCellIndex |-> Val(targetCellIndex),
                                          rotation |-> rotation,
                                          startTime |-> time ]),
                  exit |-> "started" ]

\* a call of startRollingAnimation(cellIndex, rotation) from outside
StartRollingAnimation(cellIndex, rotation) ==
  /\ moves < MaxMoves
  /\ LET r == startRollingAnimation(diceCellsMask, pendingRollback, rollingState,
                                    cellIndex, rotation, now)
     IN  /\ rollingState' = r.rollingState
         /\ lastCall' = Call("startRollingAnimation", r.exit)
         /\ moves' = IF r.exit = "started" THEN moves + 1 ELSE moves
         /\ rollingIssuedBy' = IF r.exit = "started" THEN "caller" ELSE rollingIssuedBy
  /\ UNCHANGED << diceCellsMask, diceOrientations, rngState, pendingRollback,
                  invalidHighlightCell, invalidHighlightExpiry, now, loaded, lastFinalized,
                  lastSetup, walk, generator, twin, others >>

\* mutant of rollbackDue: the highlight expiry is not waited for
rollbackDue_ignoresExpiry(pending, expiry, rolling, time) ==
  pending # null /\ rolling = null

\* the condition of processFrame's `if`
rollbackDue(pending, expiry, rolling, time) ==
  pending # null /\ time >= expiry /\ rolling = null

\* mutant of ProcessFrame: the inverse move is issued before the rollback is
\* cleared
ProcessFrame_issuesBeforeClearing ==
  /\ IF rollbackDue(pendingRollback, invalidHighlightExpiry, rollingState, now)
     THEN LET rollback == Val(pendingRollback)
              r == startRollingAnimation(diceCellsMask, pendingRollback, rollingState,
                                         rollback.sourceCellIndex, rollback.rotation, now)
          IN  /\ pendingRollback' = null
              /\ invalidHighlightCell' = null
              /\ rollingState' = r.rollingState
              /\ rollingIssuedBy' = IF r.exit = "started" THEN "processFrame"
                                    ELSE rollingIssuedBy
              /\ lastCall' = Call("processFrame", r.exit)
     ELSE /\ UNCHANGED << pendingRollback, invalidHighlightCell, rollingState,
                          rollingIssuedBy >>
          /\ lastCall' = Call("processFrame", "not due")
  /\ UNCHANGED << diceCellsMask, diceOrientations, rngState, invalidHighlightExpiry,
                  now, loaded, lastFinalized, moves, lastSetup, walk, generator, twin, others >>

\* mutant of ProcessFrame: the rollback stays pending after it is fired
ProcessFrame_keepsRollback ==
  /\ IF rollbackDue(pendingRollback, invalidHighlightExpiry, rollingState, now)
     THEN LET rollback == Val(pendingRollback)
              r == startRollingAnimation(diceCellsMask, null, rollingState,
                                         rollback.sourceCellIndex, rollback.rotation, now)
          IN  /\ pendingRollback' = pendingRollback
              /\ invalidHighlightCell' = null
              /\ rollingState' = r.rollingState
              /\ rollingIssuedBy' = IF r.exit = "started" THEN "processFrame"
                                    ELSE rollingIssuedBy
              /\ lastCall' = Call("processFrame", r.exit)
     ELSE /\ UNCHANGED << pendingRollback, invalidHighlightCell, rollingState,
                          rollingIssuedBy >>
          /\ lastCall' = Call("processFrame", "not due")
  /\ UNCHANGED << diceCellsMask, diceOrientations, rngState, invalidHighlightExpiry,
                  now, loaded, lastFinalized, moves, lastSetup, walk, generator, twin, others >>

\* processFrame()
ProcessFrame ==
  /\ IF rollbackDue(pendingRollback, invalidHighlightExpiry, rollingState, now)
     THEN LET rollback == Val(pendingRollback)
              r == startRollingAnimation(diceCellsMask, null, rollingState,
                                         rollback.sourceCellIndex, rollback.rotation, now)
          IN  /\ pendingRollback' = null
              /\ invalidHighlightCell' = null
              /\ rollingState' = r.rollingState
              /\ rollingIssuedBy' = IF r.exit = "started" THEN "processFrame"
                                    ELSE rollingIssuedBy
              /\ lastCall' = Call("processFrame", r.exit)
     ELSE /\ UNCHANGED << pendingRollback, invalidHighlightCell, rollingState,
                          rollingIssuedBy >>
          /\ lastCall' = Call("processFrame", "not due")
  /\ UNCHANGED << diceCellsMask, diceOrientations, rngState, invalidHighlightExpiry,
                  now, loaded, lastFinalized, moves, lastSetup, walk, generator, twin, others >>

\* isCellInvalidHighlight(cellIndex)
isCellInvalidHighlight(highlightCell, cellIndex) == highlightCell = Some(cellIndex)

\* mutant of handleInvalidMove: the cell highlighted is the one the die left
handleInvalidMove_highlightsOrigin(cellIndex, targetCellIndex, rotation, time) ==
  [ invalidHighlightCell |-> Some(cellIndex),
    invalidHighlightExpiry |-> time + INVALID_HIGHLIGHT_DURATION_MS,
    pendingRollback |-> Some([ sourceCellIndex |-> targetCellIndex,
                               targetCellIndex |-> cellIndex,
                               rotation |-> INVERSE_ROTATION[rotation] ]) ]

\* mutant of handleInvalidMove: the rollback keeps the move's direction
handleInvalidMove_sameRotation(cellIndex, targetCellIndex, rotation, time) ==
  [ invalidHighlightCell |-> Some(targetCellIndex),
    invalidHighlightExpiry |-> time + INVALID_HIGHLIGHT_DURATION_MS,
    pendingRollback |-> Some([ sourceCellIndex |-> targetCellIndex,
                               targetCellIndex |-> cellIndex,
                               rotation |-> rotation ]) ]

\* handleInvalidMove(cellIndex, targetCellIndex, rotation): the fields it sets
handleInvalidMove(cellIndex, targetCellIndex, rotation, time) ==
  [ invalidHighlightCell |-> Some(targetCellIndex),
    invalidHighlightExpiry |-> time + INVALID_HIGHLIGHT_DURATION_MS,
    pendingRollback |-> Some([ sourceCellIndex |-> targetCellIndex,
                               targetCellIndex |-> cellIndex,
                               rotation |-> INVERSE_ROTATION[rotation] ]) ]

\* mutant of moveDie: the source cell stays occupied
moveDie_keepsSource(mask, orientations, rolling) ==
  [ orientations |-> [ orientations EXCEPT ![rolling.targetCellIndex] =
                         roll(orientations[rolling.cellIndex], rolling.rotation) ],
    mask |-> [ mask EXCEPT ![rolling.targetCellIndex] = TRUE ] ]

\* the three assignments of finalizeRollingAnimation that move the die
moveDie(mask, orientations, rolling) ==
  [ orientations |-> [ orientations EXCEPT ![rolling.targetCellIndex] =
                         roll(orientations[rolling.cellIndex], rolling.rotation) ],
    mask |-> [ [ mask EXCEPT ![rolling.cellIndex] = FALSE ]
                 EXCEPT ![rolling.targetCellIndex] = TRUE ] ]

\* finalizeRollingAnimation()
FinalizeRollingAnimation ==
  /\ IF rollingState = null
     THEN /\ UNCHANGED << diceCellsMask, diceOrientations, rollingState, pendingRollback,
                          invalidHighlightCell, invalidHighlightExpiry, lastFinalized >>
          /\ lastCall' = Call("finalizeRollingAnimation", "no roll")
     ELSE LET cellIndex == Val(rollingState).cellIndex
              targetCellIndex == Val(rollingState).targetCellIndex
              rotation == Val(rollingState).rotation
              moved == moveDie(diceCellsMask, diceOrientations, Val(rollingState))
              invalid == handleInvalidMove(cellIndex, targetCellIndex, rotation, now)
          IN  /\ diceOrientations' = moved.orientations
              /\ diceCellsMask' = moved.mask
              /\ rollingState' = null
              /\ IF ~isLatinSquareValid(moved.mask, moved.orientations)
                 THEN /\ invalidHighlightCell' = invalid.invalidHighlightCell
                      /\ invalidHighlightExpiry' = invalid.invalidHighlightExpiry
                      /\ pendingRollback' = invalid.pendingRollback
                      /\ lastCall' = Call("finalizeRollingAnimation", "invalid")
                 ELSE /\ UNCHANGED << invalidHighlightCell, invalidHighlightExpiry,
                                      pendingRollback >>
                      /\ lastCall' = Call("finalizeRollingAnimation", "valid")
              /\ lastFinalized' = Some([ roll |-> Val(rollingState),
                                         issuedBy |-> rollingIssuedBy,
                                         time |-> now,
                                         maskBefore |-> diceCellsMask,
                                         orientationsBefore |-> diceOrientations ])
  /\ UNCHANGED << rngState, now, loaded, rollingIssuedBy, moves, lastSetup, walk, generator, twin, others >>

\* The clock.  Of the values the controller reads from performance.now(),
\* only the comparison with invalidHighlightExpiry in processFrame decides
\* anything in these calls, so time is let pass while a highlight is pending.
Advance ==
  /\ pendingRollback # null
  /\ now + FrameStep <= MaxFrames * FrameStep
  /\ now' = now + FrameStep
  /\ lastCall' = Call("", "")
  /\ UNCHANGED << controller, loaded, rollingIssuedBy, lastFinalized, moves,
                  lastSetup, walk, generator, twin, others >>

Next ==
  \/ \E grid \in Grids : SetDiceMaskFromGrid(grid)
  \/ \E cellIndex \in Cells, rotation \in Rotations :
       StartRollingAnimation(cellIndex, rotation)
  \/ ProcessFrame
  \/ FinalizeRollingAnimation
  \/ Advance

Spec == Init /\ [][Next]_vars

(***************************************************************************)
(* The orientation algebra on its own: an orientation is built from two    *)
(* face labels and rolled; the controller is left as constructed           *)
(***************************************************************************)
\* the orientation a walk has reached
current(w) == IF Len(w.at) = 0 THEN w.start ELSE w.at[Len(w.at)]

\* what the consumers of an orientation read from it
observe(w, o) ==
  [ w EXCEPT !.top = IF o = InvalidOrientation THEN NoTopFace
                     ELSE getTopFaceValueFromOrientation(o),
             !.sequence = IF o = InvalidOrientation THEN << >>
                          ELSE getRotationSequence(o) ]

\* new CubeOrientation(x, y)
NewCubeOrientation(x, y) ==
  /\ walk = NoWalk
  /\ walk' = observe([ NoWalk EXCEPT !.labels = << x, y >>,
                                     !.start = CubeOrientation(x, y) ],
                     CubeOrientation(x, y))
  /\ UNCHANGED << controller, now, loaded, lastCall, rollingIssuedBy, lastFinalized,
                  moves, lastSetup, generator, twin, others >>

\* orientation.roll(direction) on the orientation the walk has reached
Roll(direction) ==
  /\ walk # NoWalk
  /\ current(walk) # InvalidOrientation
  /\ Len(walk.steps) < MaxWalk
  /\ LET next == roll(current(walk), direction)
     IN  walk' = observe([ walk EXCEPT !.steps = Append(@, direction),
                                       !.at = Append(@, next) ],
                         next)
  /\ UNCHANGED << controller, now, loaded, lastCall, rollingIssuedBy, lastFinalized,
                  moves, lastSetup, generator, twin, others >>

AlgebraNext ==
  \/ \E x \in Orientation, y \in Orientation : NewCubeOrientation(x, y)
  \/ \E direction \in Rotations : Roll(direction)

AlgebraSpec == Init /\ [][AlgebraNext]_vars

(***************************************************************************)
(* The generator on its own: rngState holds any 32-bit value and indices   *)
(* are drawn from it; the controller is left as constructed                *)
(***************************************************************************)
\* the limbs the generator states are built from: the ends and the middle
\* of the range, and the limbs of RANDOM_SEED
GeneratorLimbs == { 0, 1, 32767, 32768, LIMB - 2, LIMB - 1, RANDOM_SEED.hi, RANDOM_SEED.lo }
GeneratorStates == [ hi : GeneratorLimbs, lo : GeneratorLimbs ]

\* constructor: this.rngState = seed
Reseed(s) ==
  /\ generator = NoGenerator
  /\ generator' = [ state |-> Some(s), draws |-> << >> ]
  /\ UNCHANGED << controller, now, loaded, lastCall, rollingIssuedBy, lastFinalized,
                  moves, lastSetup, walk, twin, others >>

\* Math.floor(this.seededRandom() * n), as in randomDiceOrientation,
\* shuffleArray and pickRandomElement
DrawIndex(n) ==
  /\ generator.state # null
  /\ Len(generator.draws) < MaxDraws
  /\ \E s \in { seededRandom(Val(generator.state)) } :
       generator' = [ state |-> Some(s),
                      draws |-> Append(generator.draws,
                                       [ before |-> Val(generator.state), after |-> s,
                                         n |-> n, index |-> floorTimes(s, n) ]) ]
  /\ UNCHANGED << controller, now, loaded, lastCall, rollingIssuedBy, lastFinalized,
                  moves, lastSetup, walk, twin, others >>

GeneratorNext ==
  \/ \E s \in GeneratorStates : Reseed(s)
  \/ \E n \in 1 .. MaxItems : DrawIndex(n)

GeneratorSpec == Init /\ [][GeneratorNext]_vars

(***************************************************************************)
(* Two controllers of the same grid size, each given one grid              *)
(***************************************************************************)
\* the seeds given to the second controller: the default one and another
TwinSeeds == { RANDOM_SEED, [ hi |-> 0, lo |-> 1 ] }

\* the fields of a second controller after a call with outcome r
twinAfter(seed, setup, r) ==
  Some([ seed |-> seed, diceCellsMask |-> r.mask, diceOrientations |-> r.orientations,
         rngState |-> r.rng, setup |-> setup ])

\* new DiceController(gridSize, seed), a second time
NewTwin(seed) ==
  /\ twin = NoTwin
  /\ \E c \in { constructorFor(gridSize, seed) } :
       twin' = twinAfter(seed, null, [ mask |-> c.diceCellsMask,
                                       orientations |-> c.diceOrientations,
                                       rng |-> c.rngState ])
  /\ UNCHANGED << controller, now, loaded, lastCall, rollingIssuedBy, lastFinalized,
                  moves, lastSetup, walk, generator, others >>

\* mutant of TwinSetDiceMaskFromGrid: the generator state is shared by the
\* controllers, not a field of each
TwinSetDiceMaskFromGrid_sharedGenerator(grid) ==
  /\ twin # NoTwin
  /\ Val(twin).setup = null
  /\ \E r \in { setDiceMaskFromGridFor(gridSize, grid, Val(twin).diceCellsMask,
                                       Val(twin).diceOrientations, rngState) } :
       twin' = twinAfter(Val(twin).seed, Some([ grid |-> grid, error |-> r.error ]), r)
  /\ UNCHANGED << controller, now, loaded, lastCall, rollingIssuedBy, lastFinalized,
                  moves, lastSetup, walk, generator, others >>

\* setDiceMaskFromGrid(grid) on the second controller, called once
TwinSetDiceMaskFromGrid(grid) ==
  /\ twin # NoTwin
  /\ Val(twin).setup = null
  /\ \E r \in { setDiceMaskFromGridFor(gridSize, grid, Val(twin).diceCellsMask,
                                       Val(twin).diceOrientations, Val(twin).rngState) } :
       twin' = twinAfter(Val(twin).seed, Some([ grid |-> grid, error |-> r.error ]), r)
  /\ UNCHANGED << controller, now, loaded, lastCall, rollingIssuedBy, lastFinalized,
                  moves, lastSetup, walk, generator, others >>

TwinNext ==
  \/ \E grid \in Grids : SetDiceMaskFromGrid(grid)
  \/ \E seed \in TwinSeeds : NewTwin(seed)
  \/ \E grid \in Grids : TwinSetDiceMaskFromGrid(grid)

TwinSpec == Init /\ [][TwinNext]_vars

(***************************************************************************)
(* The board setup on its own: a controller of side SolverGridSize is      *)
(* constructed and handed a grid                                           *)
(***************************************************************************)
\* side of the board whose setup is examined on its own: one more than the
\* number of digits, so that a full row or column has no assignment
SolverGridSize == Len(DICE_DIGITS) + 1

\* the shapes of the grids handed to setDiceMaskFromGrid: any cells of the
\* first line and a run of cells at the start of the second, lines being rows
\* or columns
SolverShapes ==
  { shape \in [ first : SUBSET (1 .. SolverGridSize),
                second : 0 .. SolverSecondLine,
                byColumns : BOOLEAN ] :
      shape.first = 1 .. SolverGridSize => shape.second <= SolverBesideFullLine }

\* the grid of a shape, as rows of "#" and "."
SolverGrid(shape) ==
  [ r \in 1 .. SolverGridSize |->
      [ c \in 1 .. SolverGridSize |->
          LET line == IF shape.byColumns THEN c ELSE r
              at == IF shape.byColumns THEN r ELSE c
          IN  IF (line = 1 /\ at \in shape.first) \/ (line = 2 /\ at <= shape.second)
              THEN "#" ELSE "." ] ]

SolverGrids == { SolverGrid(shape) : shape \in SolverShapes }

SolverNext ==
  \E grid \in SolverGrids : SetDiceMaskFromGridFor(SolverGridSize, grid)

SolverSpec == InitFor(SolverGridSize) /\ [][SolverNext]_vars

(***************************************************************************)
(* setDiceMaskFromGrid called again, with a grid it rejects, on a board    *)
(* that a first call has filled                                            *)
(***************************************************************************)
\* the grids of the first call: any cells of the first row or column
FirstGrids == { SolverGrid(shape) : shape \in { sh \in SolverShapes : sh.second = 0 } }

\* grids whose height or width is not the gridSize of the controller: no
\* row at all, a row too few, a column too many
MismatchedGrids ==
  { << >>,
    [ r \in 1 .. (SolverGridSize - 1) |->
        [ c \in 1 .. SolverGridSize |-> IF c = r THEN "#" ELSE "." ] ],
    [ r \in 1 .. SolverGridSize |->
        [ c \in 1 .. (SolverGridSize + 1) |-> IF c = 1 /\ r <= 2 THEN "#" ELSE "." ] ] }

\* grids with more dice in a line than there are digits
OverfullGrids ==
  { SolverGrid([ first |-> 1 .. SolverGridSize, second |-> 0, byColumns |-> b ]) :
      b \in BOOLEAN }

\* setDiceMaskFromGrid(grid), called after a call that has returned
SetDiceMaskFromGridAgain(size, grid) ==
  /\ loaded
  /\ lastSetup # null
  /\ Val(lastSetup).error = ""
  /\ SetupOutcome(grid, setDiceMaskFromGridFor(size, grid, diceCellsMask,
                                               diceOrientations, rngState))
  /\ UNCHANGED << rollingState, pendingRollback, invalidHighlightCell,
                  invalidHighlightExpiry, now, loaded, rollingIssuedBy, lastFinalized,
                  moves, walk, generator, twin, others >>

SetupNext ==
  \/ \E grid \in FirstGrids \cup MismatchedGrids :
       SetDiceMaskFromGridFor(SolverGridSize, grid)
  \/ \E grid \in MismatchedGrids \cup OverfullGrids :
       SetDiceMaskFromGridAgain(SolverGridSize, grid)

SetupSpec == InitFor(SolverGridSize) /\ [][SetupNext]_vars

(***************************************************************************)
(* buildPartialLatinSquare step by step: the activations of the closure    *)
(* `solve` are kept on a stack, and each step enters one activation or     *)
(* hands the value one has returned to its caller                          *)
(***************************************************************************)
\* the grids searched: all but at most one cell of the first line hold a
\* die, so that the digits run out
BacktrackGrids ==
  { SolverGrid(shape) :
      shape \in { sh \in SolverShapes :
                    Cardinality(sh.first) >= SolverGridSize - 1 } }

\* the arrays the closure works on
searchBoard(q) ==
  [ assignments |-> q.assignments, rowUsed |-> q.rowUsed, colUsed |-> q.colUsed ]

\* assignments[cellIndex] = digit; rowUsed[row].add(digit); colUsed[col].add(digit)
assignOption(q, position, digit) ==
  [ q EXCEPT !.assignments[position.row * q.width + position.col] = Some(digit),
             !.rowUsed[position.row] = @ \cup { digit },
             !.colUsed[position.col] = @ \cup { digit } ]

\* mutant of undoOption: the digit stays in the set of its column
undoOption_keepsColumn(q, position, digit) ==
  [ q EXCEPT !.assignments[position.row * q.width + position.col] = null,
             !.rowUsed[position.row] = @ \ { digit } ]

\* rowUsed[row].delete(digit); colUsed[col].delete(digit); assignments[cellIndex] = null
undoOption(q, position, digit) ==
  [ q EXCEPT !.assignments[position.row * q.width + position.col] = null,
             !.rowUsed[position.row] = @ \ { digit },
             !.colUsed[position.col] = @ \ { digit } ]

\* the activation solve(index) returns `ok`; `entry` is the board it was
\* entered with
returned(q, index, ok, entry) ==
  [ q EXCEPT !.phase = "return", !.index = index, !.ok = ok, !.entry = entry ]

\* solve(index) is entered: it returns at once, or it assigns its first
\* option and calls solve(index + 1)
enterSolve(q) ==
  IF q.index = Len(q.positions) THEN returned(q, q.index, TRUE, searchBoard(q))
  ELSE LET position == q.positions[q.index + 1]
           options == SelectSeq(DICE_DIGITS,
                        LAMBDA digit : digit \notin q.rowUsed[position.row]
                                       /\ digit \notin q.colUsed[position.col])
       IN  CHOOSE next \in
             { IF Len(shuffled.array) = 0
               THEN returned([ q EXCEPT !.rng = shuffled.rng ], q.index, FALSE,
                             searchBoard(q))
               ELSE [ assignOption(q, position, shuffled.array[1])
                        EXCEPT !.rng = shuffled.rng,
                               !.index = q.index + 1,
                               !.stack = Append(q.stack,
                                                [ index |-> q.index,
                                                  options |-> shuffled.array,
                                                  k |-> 1,
                                                  entry |-> searchBoard(q) ]) ]
               : shuffled \in { shuffleArray(options, q.rng) } } : TRUE

\* solve(index + 1) has returned q.ok to the activation on top of the stack
resumeSolve(q) ==
  LET frame == q.stack[Len(q.stack)]
      position == q.positions[frame.index + 1]
      below == SubSeq(q.stack, 1, Len(q.stack) - 1)
  IN  IF q.ok THEN returned([ q EXCEPT !.stack = below ], frame.index, TRUE, frame.entry)
      ELSE CHOOSE next \in
             { IF frame.k < Len(frame.options)
               THEN [ assignOption(undone, position, frame.options[frame.k + 1])
                        EXCEPT !.phase = "enter",
                               !.index = frame.index + 1,
                               !.stack = Append(below, [ frame EXCEPT !.k = frame.k + 1 ]) ]
               ELSE returned([ undone EXCEPT !.stack = below ], frame.index, FALSE,
                             frame.entry)
               : undone \in { undoOption(q, position, frame.options[frame.k]) } } : TRUE

\* buildPartialLatinSquare(grid) up to the call solve(0)
BuildPartialLatinSquare(grid) ==
  /\ search = NoSearch
  /\ \E ordered \in { shuffleArray(gridPositions(grid), rngState) } :
       /\ search' = Some([ positions |-> ordered.array,
                           width |-> gridWidth(grid),
                           assignments |-> [ c \in DOMAIN diceCellsMask |-> null ],
                           rowUsed |-> [ r \in 0 .. (gridHeight(grid) - 1) |-> {} ],
                           colUsed |-> [ c \in 0 .. (gridWidth(grid) - 1) |-> {} ],
                           rng |-> ordered.rng,
                           start |-> ordered.rng,
                           stack |-> << >>,
                           phase |-> "enter",
                           index |-> 0,
                           ok |-> FALSE,
                           entry |-> null ])
       /\ rngState' = ordered.rng
  /\ lastCall' = Call("buildPartialLatinSquare", "")
  /\ UNCHANGED << diceCellsMask, diceOrientations, rollingState, pendingRollback,
                  invalidHighlightCell, invalidHighlightExpiry, now, loaded,
                  rollingIssuedBy, lastFinalized, moves, lastSetup, walk, generator,
                  twin, interaction, drag >>

\* an activation of solve is entered
SolveEnter ==
  /\ search # NoSearch
  /\ Val(search).phase = "enter"
  /\ \E q \in { enterSolve(Val(search)) } :
       /\ search' = Some(q)
       /\ rngState' = q.rng
  /\ lastCall' = Call("solve", "enter")
  /\ UNCHANGED << diceCellsMask, diceOrientations, rollingState, pendingRollback,
                  invalidHighlightCell, invalidHighlightExpiry, now, loaded,
                  rollingIssuedBy, lastFinalized, moves, lastSetup, walk, generator,
                  twin, interaction, drag >>

\* an activation of solve goes on after the call it made has returned
SolveResume ==
  /\ search # NoSearch
  /\ Val(search).phase = "return"
  /\ Len(Val(search).stack) > 0
  /\ search' = Some(resumeSolve(Val(search)))
  /\ lastCall' = Call("solve", "resume")
  /\ UNCHANGED << controller, now, loaded, rollingIssuedBy, lastFinalized, moves,
                  lastSetup, walk, generator, twin, interaction, drag >>

BacktrackNext ==
  \/ \E grid \in BacktrackGrids : BuildPartialLatinSquare(grid)
  \/ SolveEnter
  \/ SolveResume

BacktrackSpec == InitFor(SolverGridSize) /\ [][BacktrackNext]_vars

(***************************************************************************)
(* main.ts: the draw loop as the frame driver of the controller, with      *)
(* requests from a caller of startRollingAnimation                         *)
(***************************************************************************)
\* mutant of computeRollingAnimation: progress is not capped at 1
computeRollingAnimation_unclamped(rolling, time) ==
  IF rolling = null THEN null
  ELSE Some([ cellIndex |-> Val(rolling).cellIndex,
              targetCellIndex |-> Val(rolling).targetCellIndex,
              rotation |-> Val(rolling).rotation,
              startTime |-> Val(rolling).startTime,
              progress |-> time - Val(rolling).startTime ])

\* computeRollingAnimation(): null, or the rolling state with its progress;
\* progress is kept as the numerator of a fraction of ROLL_DURATION_MS, so
\* Math.min(1, elapsed / ROLL_DURATION_MS) is the smaller of elapsed and
\* ROLL_DURATION_MS, and progress >= 1 reads progress >= ROLL_DURATION_MS
computeRollingAnimation(rolling, time) ==
  IF rolling = null THEN null
  ELSE LET elapsed == time - Val(rolling).startTime
       IN  Some([ cellIndex |-> Val(rolling).cellIndex,
                  targetCellIndex |-> Val(rolling).targetCellIndex,
                  rotation |-> Val(rolling).rotation,
                  startTime |-> Val(rolling).startTime,
                  progress |-> IF elapsed < ROLL_DURATION_MS THEN elapsed
                               ELSE ROLL_DURATION_MS ])

\* s.draw, as far as the controller goes: processFrame(),
\* computeRollingAnimation(), and finalizeRollingAnimation() when the
\* animation's progress is at least 1
DrawController ==
  /\ LET due == rollbackDue(pendingRollback, invalidHighlightExpiry, rollingState, now)
         started == startRollingAnimation(diceCellsMask, null, rollingState,
                                          Val(pendingRollback).sourceCellIndex,
                                          Val(pendingRollback).rotation, now)
         framed == IF due
                   THEN [ pendingRollback |-> null,
                          invalidHighlightCell |-> null,
                          rollingState |-> started.rollingState,
                          issuedBy |-> IF started.exit = "started" THEN "processFrame"
                                       ELSE rollingIssuedBy,
                          exit |-> started.exit ]
                   ELSE [ pendingRollback |-> pendingRollback,
                          invalidHighlightCell |-> invalidHighlightCell,
                          rollingState |-> rollingState,
                          issuedBy |-> rollingIssuedBy,
                          exit |-> "not due" ]
         currentRollingAnimation == computeRollingAnimation(framed.rollingState, now)
     IN  IF currentRollingAnimation # null
            /\ Val(currentRollingAnimation).progress >= ROLL_DURATION_MS
         THEN \E moved \in { moveDie(diceCellsMask, diceOrientations,
                                      Val(framed.rollingState)) } :
              LET rolling == Val(framed.rollingState)
                  invalid == handleInvalidMove(rolling.cellIndex, rolling.targetCellIndex,
                                               rolling.rotation, now)
                  valid == isLatinSquareValid(moved.mask, moved.orientations)
              IN  /\ diceOrientations' = moved.orientations
                  /\ diceCellsMask' = moved.mask
                  /\ rollingState' = null
                  /\ invalidHighlightCell' = IF valid THEN framed.invalidHighlightCell
                                             ELSE invalid.invalidHighlightCell
                  /\ invalidHighlightExpiry' = IF valid THEN invalidHighlightExpiry
                                               ELSE invalid.invalidHighlightExpiry
                  /\ pendingRollback' = IF valid THEN framed.pendingRollback
                                        ELSE invalid.pendingRollback
                  /\ rollingIssuedBy' = framed.issuedBy
                  /\ lastFinalized' = Some([ roll |-> rolling,
                                             issuedBy |-> framed.issuedBy,
                                             time |-> now,
                                             maskBefore |-> diceCellsMask,
                                             orientationsBefore |-> diceOrientations ])
                  /\ lastCall' = Call("draw", IF valid THEN "valid" ELSE "invalid")
         ELSE /\ pendingRollback' = framed.pendingRollback
              /\ invalidHighlightCell' = framed.invalidHighlightCell
              /\ rollingState' = framed.rollingState
              /\ rollingIssuedBy' = framed.issuedBy
              /\ lastCall' = Call("draw", framed.exit)
              /\ UNCHANGED << diceCellsMask, diceOrientations, invalidHighlightExpiry,
                              lastFinalized >>
  /\ UNCHANGED << rngState, now, loaded, moves, lastSetup, walk, generator, twin >>

\* s.draw with the pointer away from the board: renderGrid finds no die
\* under it
Draw ==
  /\ DrawController
  /\ interaction' = [ interaction EXCEPT !.hoveredDiceCell = null ]
  /\ UNCHANGED << drag, search >>

\* performance.now() between two frames.  The controller compares it with
\* the start of the roll in flight and with the expiry of the highlight and
\* with nothing else, so time is let pass while one of the two is waited for.
Tick ==
  /\ \/ rollingState # null /\ now - Val(rollingState).startTime < ROLL_DURATION_MS
     \/ pendingRollback # null /\ now < invalidHighlightExpiry
  /\ now + FrameStep <= DrawFrames * FrameStep
  /\ now' = now + FrameStep
  /\ lastCall' = Call("", "")
  /\ UNCHANGED << controller, loaded, rollingIssuedBy, lastFinalized, moves,
                  lastSetup, walk, generator, twin, others >>

DrawNext ==
  \/ \E grid \in Grids : SetDiceMaskFromGrid(grid)
  \/ \E cellIndex \in Cells, rotation \in Rotations :
       StartRollingAnimation(cellIndex, rotation)
  \/ Draw
  \/ Tick

\* p5 calls draw for every frame and performance.now() increases between
\* frames: neither is put off for ever
DrawSpec == Init /\ [][DrawNext]_vars /\ WF_vars(Draw) /\ WF_vars(Tick)

(***************************************************************************)
(* The animation query on its own: a roll is started, the clock moves on   *)
(* by amounts around ROLL_DURATION_MS and the renderer asks for the        *)
(* animation                                                               *)
(***************************************************************************)
\* the times since the start of a roll at which performance.now() is read
ElapsedTimes == { 1, ROLL_DURATION_MS - 1, ROLL_DURATION_MS, ROLL_DURATION_MS + 1,
                  2 * ROLL_DURATION_MS }

\* performance.now() while a roll is in flight
Elapse(elapsed) ==
  /\ rollingState # null
  /\ now < Val(rollingState).startTime + elapsed
  /\ now' = Val(rollingState).startTime + elapsed
  /\ lastCall' = Call("", "")
  /\ UNCHANGED << controller, loaded, rollingIssuedBy, lastFinalized, moves,
                  lastSetup, walk, generator, twin, others >>

\* what the caller of computeRollingAnimation sees of its result
animationSeen(animation) ==
  IF animation = null THEN "none"
  ELSE IF Val(animation).progress >= ROLL_DURATION_MS THEN "complete"
  ELSE "running"

\* computeRollingAnimation(), called by the renderer
ComputeRollingAnimation ==
  /\ lastCall' = Call("computeRollingAnimation",
                      animationSeen(computeRollingAnimation(rollingState, now)))
  /\ UNCHANGED << controller, now, loaded, rollingIssuedBy, lastFinalized, moves,
                  lastSetup, walk, generator, twin, others >>

AnimationNext ==
  \/ \E grid \in Grids : SetDiceMaskFromGrid(grid)
  \/ \E cellIndex \in Cells, rotation \in Rotations :
       StartRollingAnimation(cellIndex, rotation)
  \/ \E elapsed \in ElapsedTimes : Elapse(elapsed)
  \/ ComputeRollingAnimation

AnimationSpec == Init /\ [][AnimationNext]_vars

(***************************************************************************)
(* interactionController.ts: the drag interpreter                          *)
(***************************************************************************)
DRAG_DISTANCE_THRESHOLD == 20

\* the positions of the pointer: a point, and points nearer to it and
\* farther from it than the threshold on each side
PointerPoints ==
  { [ x |-> 0, y |-> 0 ],
    [ x |-> DRAG_DISTANCE_THRESHOLD - 1, y |-> 0 ],
    [ x |-> DRAG_DISTANCE_THRESHOLD, y |-> 0 ],
    [ x |-> 0 - DRAG_DISTANCE_THRESHOLD, y |-> 0 ],
    [ x |-> 0, y |-> DRAG_DISTANCE_THRESHOLD ],
    [ x |-> 0, y |-> 0 - DRAG_DISTANCE_THRESHOLD ] }

abs(n) == IF n < 0 THEN 0 - n ELSE n

\* setHover(cellIndex)
setHover(i, cellIndex) == [ i EXCEPT !.hoveredDiceCell = cellIndex ]

\* startDrag(cellIndex, point): the fields it leaves and what it returns
startDrag(i, cellIndex, point) ==
  IF cellIndex = null THEN [ interaction |-> i, result |-> FALSE ]
  ELSE [ interaction |-> [ i EXCEPT !.activeDragCell = cellIndex,
                                    !.lastDragPoint = Some(point),
                                    !.dragRotationApplied = FALSE ],
         result |-> TRUE ]

\* the rotation recordMovement reads from a displacement
dragRotation(dx, dy) ==
  IF abs(dx) > abs(dy) THEN (IF dx > 0 THEN "right" ELSE "left")
  ELSE (IF dy > 0 THEN "down" ELSE "up")

\* mutant of recordMovement: the drag is not marked as having rotated
recordMovement_notMarked(i, point) ==
  IF i.activeDragCell = null \/ i.lastDragPoint = null \/ i.dragRotationApplied
  THEN [ interaction |-> i, move |-> null ]
  ELSE LET dx == point.x - Val(i.lastDragPoint).x
           dy == point.y - Val(i.lastDragPoint).y
       IN  IF dx * dx + dy * dy < DRAG_DISTANCE_THRESHOLD * DRAG_DISTANCE_THRESHOLD
           THEN [ interaction |-> i, move |-> null ]
           ELSE [ interaction |-> [ i EXCEPT !.lastDragPoint = Some(point) ],
                  move |-> Some([ rotation |-> dragRotation(dx, dy),
                                  cellIndex |-> Val(i.activeDragCell) ]) ]

\* recordMovement(point): the fields it leaves and what it returns;
\* Math.hypot(dx, dy) < threshold is compared on the squares
recordMovement(i, point) ==
  IF i.activeDragCell = null \/ i.lastDragPoint = null \/ i.dragRotationApplied
  THEN [ interaction |-> i, move |-> null ]
  ELSE LET dx == point.x - Val(i.lastDragPoint).x
           dy == point.y - Val(i.lastDragPoint).y
       IN  IF dx * dx + dy * dy < DRAG_DISTANCE_THRESHOLD * DRAG_DISTANCE_THRESHOLD
           THEN [ interaction |-> i, move |-> null ]
           ELSE [ interaction |-> [ i EXCEPT !.dragRotationApplied = TRUE,
                                             !.lastDragPoint = Some(point) ],
                  move |-> Some([ rotation |-> dragRotation(dx, dy),
                                  cellIndex |-> Val(i.activeDragCell) ]) ]

\* resetDrag()
resetDrag(i) ==
  [ i EXCEPT !.activeDragCell = null, !.lastDragPoint = null,
             !.dragRotationApplied = FALSE ]

\* what a call of recordMovement with result r adds to the history of the drag
dragAfter(d, r, point) ==
  [ d EXCEPT !.emitted = IF r.move = null THEN @ ELSE @ + 1,
             !.last = Some([ point |-> point, move |-> r.move ]) ]

(***************************************************************************)
(* The drag interpreter on its own: any of its methods is called with any  *)
(* cell and any pointer position; the controller is left as constructed    *)
(***************************************************************************)
\* setHover(cellIndex)
SetHover(cellIndex) ==
  /\ interaction' = setHover(interaction, cellIndex)
  /\ lastCall' = Call("setHover", "")
  /\ UNCHANGED << controller, now, loaded, rollingIssuedBy, lastFinalized, moves,
                  lastSetup, walk, generator, twin, drag, search >>

\* startDrag(cellIndex, point)
StartDrag(cellIndex, point) ==
  /\ \E r \in { startDrag(interaction, cellIndex, point) } :
       /\ interaction' = r.interaction
       /\ drag' = IF r.result
                  THEN [ startedOn |-> cellIndex, emitted |-> 0, last |-> null ]
                  ELSE drag
       /\ lastCall' = Call("startDrag", IF r.result THEN "started" ELSE "no cell")
  /\ UNCHANGED << controller, now, loaded, rollingIssuedBy, lastFinalized, moves,
                  lastSetup, walk, generator, twin, search >>

\* recordMovement(point)
RecordMovement(point) ==
  /\ drag.emitted < MaxEmitted
  /\ \E r \in { recordMovement(interaction, point) } :
       /\ interaction' = r.interaction
       /\ drag' = dragAfter(drag, r, point)
       /\ lastCall' = Call("recordMovement", IF r.move = null THEN "null" ELSE "move")
  /\ UNCHANGED << controller, now, loaded, rollingIssuedBy, lastFinalized, moves,
                  lastSetup, walk, generator, twin, search >>

\* resetDrag()
ResetDrag ==
  /\ interaction' = resetDrag(interaction)
  /\ drag' = NoDrag
  /\ lastCall' = Call("resetDrag", "")
  /\ UNCHANGED << controller, now, loaded, rollingIssuedBy, lastFinalized, moves,
                  lastSetup, walk, generator, twin, search >>

PointerNext ==
  \/ \E cellIndex \in { null } \cup { Some(c) : c \in Cells } : SetHover(cellIndex)
  \/ \E cellIndex \in { null } \cup { Some(c) : c \in Cells }, point \in PointerPoints :
       StartDrag(cellIndex, point)
  \/ \E point \in PointerPoints : RecordMovement(point)
  \/ ResetDrag

PointerSpec == Init /\ [][PointerNext]_vars

(***************************************************************************)
(* main.ts: the mouse handlers and the draw loop of the sketch             *)
(***************************************************************************)
\* mutant of rollInFlight: the handler does not look at the Rolling State
rollInFlight_notAsked(rolling) == FALSE

\* `diceController.getRollingState() !== null`, the early return of
\* mousePressed and of mouseDragged
rollInFlight(rolling) == rolling # null

\* s.mousePressed with the pointer at `point`
MousePressed(point) ==
  /\ IF rollInFlight(rollingState)
     THEN /\ lastCall' = Call("mousePressed", "rolling")
          /\ UNCHANGED << interaction, drag >>
     ELSE LET hoverCell == interaction.hoveredDiceCell
          IN  IF hoverCell # null /\ diceCellsMask[Val(hoverCell)]
              THEN /\ interaction' = startDrag(interaction, hoverCell, point).interaction
                   /\ drag' = [ startedOn |-> hoverCell, emitted |-> 0, last |-> null ]
                   /\ lastCall' = Call("mousePressed", "started")
              ELSE /\ lastCall' = Call("mousePressed", "no die")
                   /\ UNCHANGED << interaction, drag >>
  /\ UNCHANGED << controller, now, loaded, rollingIssuedBy, lastFinalized, moves,
                  lastSetup, walk, generator, twin, search >>

\* s.mouseDragged with the pointer at `point`
MouseDragged(point) ==
  /\ moves < MaxMoves
  /\ drag.emitted < MaxEmitted
  /\ IF rollInFlight(rollingState)
     THEN /\ lastCall' = Call("mouseDragged", "rolling")
          /\ UNCHANGED << interaction, drag, rollingState, rollingIssuedBy, moves >>
     ELSE \E r \in { recordMovement(interaction, point) } :
            /\ interaction' = r.interaction
            /\ drag' = dragAfter(drag, r, point)
            /\ IF r.move = null
               THEN /\ lastCall' = Call("mouseDragged", "no move")
                    /\ UNCHANGED << rollingState, rollingIssuedBy, moves >>
               ELSE \E started \in { startRollingAnimation(diceCellsMask, pendingRollback,
                                                           rollingState,
                                                           Val(r.move).cellIndex,
                                                           Val(r.move).rotation, now) } :
                      /\ rollingState' = started.rollingState
                      /\ rollingIssuedBy' = IF started.exit = "started" THEN "caller"
                                            ELSE rollingIssuedBy
                      /\ moves' = IF started.exit = "started" THEN moves + 1 ELSE moves
                      /\ lastCall' = Call("mouseDragged", started.exit)
  /\ UNCHANGED << diceCellsMask, diceOrientations, rngState, pendingRollback,
                  invalidHighlightCell, invalidHighlightExpiry, now, loaded,
                  lastFinalized, lastSetup, walk, generator, twin, search >>

\* s.mouseReleased
MouseReleased ==
  /\ interaction' = resetDrag(interaction)
  /\ drag' = NoDrag
  /\ lastCall' = Call("mouseReleased", "")
  /\ UNCHANGED << controller, now, loaded, rollingIssuedBy, lastFinalized, moves,
                  lastSetup, walk, generator, twin, search >>

\* s.draw with the pointer over `hover`: renderGrid sets the hovered cell
\* to a cell that holds a die, or to none, before the roll is finalized
MainDraw(hover) ==
  /\ hover # null => diceCellsMask[Val(hover)]
  /\ DrawController
  /\ interaction' = setHover(interaction, hover)
  /\ UNCHANGED << drag, search >>

MainNext ==
  \/ \E grid \in Grids : SetDiceMaskFromGrid(grid)
  \/ \E point \in PointerPoints : MousePressed(point)
  \/ \E point \in PointerPoints : MouseDragged(point)
  \/ MouseReleased
  \/ \E hover \in { null } \cup { Some(c) : c \in Cells } : MainDraw(hover)
  \/ Tick

\* the handlers of the sketch run one at a time, in any order
MainSpec == Init /\ [][MainNext]_vars

(***************************************************************************)
(* Properties                                                              *)
(***************************************************************************)
Row(cellIndex) == cellIndex \div gridSize
Col(cellIndex) == cellIndex % gridSize

\* the Latin-square constraint: no two dice of a row or of a column show the
\* same top-face digit
LatinSquareConstraint(mask, orientations) ==
  \A a, b \in Cells :
    (a # b /\ mask[a] /\ mask[b] /\ (Row(a) = Row(b) \/ Col(a) = Col(b)))
      => getTopFaceValueFromOrientation(orientations[a])
           # getTopFaceValueFromOrientation(orientations[b])

\* the move leaves the grid
OffGrid(cellIndex, rotation) ==
  \/ rotation = "left" /\ Col(cellIndex) = 0
  \/ rotation = "right" /\ Col(cellIndex) = gridSize - 1
  \/ rotation = "up" /\ Row(cellIndex) = 0
  \/ rotation = "down" /\ Row(cellIndex) = gridSize - 1

\* the row/column neighbour of a cell
Neighbour(cellIndex, rotation) ==
  CASE rotation = "left" -> cellIndex - 1
    [] rotation = "right" -> cellIndex + 1
    [] rotation = "up" -> cellIndex - gridSize
    [] rotation = "down" -> cellIndex + gridSize

OppositeDirection(rotation) ==
  CASE rotation = "left" -> "right"
    [] rotation = "right" -> "left"
    [] rotation = "up" -> "down"
    [] rotation = "down" -> "up"

\* a request the controller has to refuse whatever else is going on
Refused(cellIndex, rotation) ==
  \/ ~diceCellsMask[cellIndex]
  \/ OffGrid(cellIndex, rotation)
  \/ diceCellsMask[Neighbour(cellIndex, rotation)]

\* the step is a call of startRollingAnimation(cellIndex, rotation) from
\* outside
RequestStep(cellIndex, rotation) ==
  /\ lastCall'.op = "startRollingAnimation"
  /\ StartRollingAnimation(cellIndex, rotation)
FinalizeStep == lastCall'.op = "finalizeRollingAnimation"
TickStep == lastCall'.op = "processFrame"

\* C1: when a finalized roll takes a board that satisfies the Latin-square
\* constraint to one that violates it, the next roll finalized is the
\* inverse move issued by processFrame, and its finalize leaves a board that
\* satisfies the constraint with no rollback scheduled.
C1_RollbackConverges ==
  [][ ( /\ FinalizeStep
        /\ rollingState # null
        /\ lastFinalized # null
        /\ LatinSquareConstraint(Val(lastFinalized).maskBefore,
                                 Val(lastFinalized).orientationsBefore)
        /\ ~LatinSquareConstraint(diceCellsMask, diceOrientations) )
      => ( /\ rollingIssuedBy = "processFrame"
           /\ LatinSquareConstraint(diceCellsMask', diceOrientations')
           /\ pendingRollback' = null ) ]_vars

\* C2: a call of startRollingAnimation while a Rolling State exists leaves
\* the Rolling State and every other field of the controller unchanged.
C2_RequestWhileRollingIsNoOp ==
  [][ (rollingState # null /\ controller' # controller)
        => \A cellIndex \in Cells, rotation \in Rotations :
             ~RequestStep(cellIndex, rotation) ]_vars

\* C3: a call of startRollingAnimation on an empty source, toward an occupied
\* neighbour or toward a neighbour outside the grid (no wrap to the next row)
\* leaves the whole controller unchanged.  (Stated by contraposition: a step
\* that changes the controller is no call with such arguments.)
C3_RefusedRequestIsNoOp ==
  [][ controller' # controller
        => \A cellIndex \in Cells, rotation \in Rotations :
             RequestStep(cellIndex, rotation) => ~Refused(cellIndex, rotation) ]_vars

\* C3 witness: the only die of the board stands on the right edge, above
\* the last row (the next cell in row-major order exists and is empty), and a
\* request for it has just been refused for lack of a target: the target was
\* off the grid.
C3_Witness ==
  /\ lastCall = Call("startRollingAnimation", "no target")
  /\ \E c \in Cells :
       /\ \A d \in Cells : diceCellsMask[d] <=> d = c
       /\ Col(c) = gridSize - 1
       /\ c + 1 \in Cells
  /\ rollingState = null

\* C4: while a Pending Rollback exists every call of startRollingAnimation,
\* for any cell and direction, leaves the whole controller unchanged.
C4_RequestWhilePendingIsNoOp ==
  [][ (pendingRollback # null /\ controller' # controller)
        => \A cellIndex \in Cells, rotation \in Rotations :
             ~RequestStep(cellIndex, rotation) ]_vars

\* C4 witness: a request has just been refused because a rollback is
\* pending, on a board where a die that is not the one to roll back has an
\* empty neighbour that the rollback does not use.
C4_Witness ==
  /\ pendingRollback # null
  /\ lastCall = Call("startRollingAnimation", "rollback pending")
  /\ \E c \in Cells, rotation \in Rotations :
       /\ diceCellsMask[c]
       /\ c # Val(pendingRollback).sourceCellIndex
       /\ ~OffGrid(c, rotation)
       /\ ~diceCellsMask[Neighbour(c, rotation)]
       /\ Neighbour(c, rotation) # Val(pendingRollback).targetCellIndex
  /\ rollingState = null

\* C5: a call of startRollingAnimation that creates a Rolling State creates
\* (source, neighbour in the direction, direction, current time) and changes
\* nothing else; occupancy and orientations change only in
\* finalizeRollingAnimation (and in the setup).
C5_RequestOnlyCreatesRollingState ==
  [][ /\ rollingState' # rollingState
           => \A cellIndex \in Cells, rotation \in Rotations :
                RequestStep(cellIndex, rotation)
                  => /\ rollingState' = Some([ cellIndex |-> cellIndex,
                                               targetCellIndex |-> Neighbour(cellIndex, rotation),
                                               rotation |-> rotation,
                                               startTime |-> now ])
                     /\ UNCHANGED << diceCellsMask, diceOrientations, rngState,
                                     pendingRollback, invalidHighlightCell,
                                     invalidHighlightExpiry >>
      /\ (diceCellsMask' # diceCellsMask \/ diceOrientations' # diceOrientations)
           => lastCall'.op \in { "finalizeRollingAnimation", "setDiceMaskFromGrid" } ]_vars

\* C5 witness: a request has just created a Rolling State at a time later
\* than the setup and the die still stands on its source cell.
C5_Witness ==
  /\ lastCall = Call("startRollingAnimation", "started")
  /\ rollingState # null
  /\ rollingIssuedBy = "caller"
  /\ Val(rollingState).startTime = now
  /\ now > 0
  /\ diceCellsMask[Val(rollingState).cellIndex]
  /\ ~diceCellsMask[Val(rollingState).targetCellIndex]

\* C6: finalizeRollingAnimation with a Rolling State (source, target,
\* direction) sets orientation[target] = roll(orientation[source], direction),
\* empties source, occupies target, clears the Rolling State and leaves every
\* other cell as it was; without a Rolling State it changes nothing.
C6_FinalizeMovesTheDie ==
  [][ FinalizeStep =>
        IF rollingState = null THEN UNCHANGED controller
        ELSE LET source == Val(rollingState).cellIndex
                 target == Val(rollingState).targetCellIndex
                 rotation == Val(rollingState).rotation
             IN  /\ diceOrientations'[target] = roll(diceOrientations[source], rotation)
                 /\ ~diceCellsMask'[source]
                 /\ diceCellsMask'[target]
                 /\ rollingState' = null
                 /\ \A c \in Cells \ { source, target } :
                      /\ diceCellsMask'[c] = diceCellsMask[c]
                      /\ diceOrientations'[c] = diceOrientations[c] ]_vars

\* C6 witness: a roll has just been finalized; the die stands on the target
\* with the rolled orientation and the source is empty.
C6_Witness ==
  /\ lastCall.op = "finalizeRollingAnimation"
  /\ lastFinalized # null
  /\ Val(lastFinalized).time = now
  /\ rollingState = null
  /\ diceCellsMask[Val(lastFinalized).roll.targetCellIndex]
  /\ ~diceCellsMask[Val(lastFinalized).roll.cellIndex]
  /\ diceOrientations[Val(lastFinalized).roll.targetCellIndex]
       = roll(Val(lastFinalized).orientationsBefore[Val(lastFinalized).roll.cellIndex],
              Val(lastFinalized).roll.rotation)

\* C7: when finalizeRollingAnimation leaves the board violating the
\* Latin-square constraint, the die stays on the target with the rolled
\* orientation, the target is highlighted until finalize time + 600 ms and
\* the Pending Rollback is (target, source, opposite direction).
C7_ViolationSchedulesRollback ==
  [][ ( /\ FinalizeStep
        /\ rollingState # null
        /\ ~LatinSquareConstraint(diceCellsMask', diceOrientations') )
      => LET source == Val(rollingState).cellIndex
             target == Val(rollingState).targetCellIndex
             rotation == Val(rollingState).rotation
         IN  /\ diceCellsMask'[target]
             /\ ~diceCellsMask'[source]
             /\ diceOrientations'[target] = roll(diceOrientations[source], rotation)
             /\ invalidHighlightCell' = Some(target)
             /\ invalidHighlightExpiry' = now + 600
             /\ pendingRollback' = Some([ sourceCellIndex |-> target,
                                          targetCellIndex |-> source,
                                          rotation |-> OppositeDirection(rotation) ]) ]_vars

\* C7 witness: a finalize has just left a violating board and scheduled the
\* rollback.
C7_Witness ==
  /\ lastCall.op = "finalizeRollingAnimation"
  /\ lastFinalized # null
  /\ Val(lastFinalized).time = now
  /\ ~LatinSquareConstraint(diceCellsMask, diceOrientations)
  /\ pendingRollback # null
  /\ invalidHighlightExpiry = now + 600

\* C8: a Pending Rollback exists only when the roll finalized last left the
\* board violating the constraint (and it is that roll's inverse); a finalize
\* that leaves the board satisfying the constraint leaves no Pending Rollback
\* and no highlight.
C8_RollbackOnlyAfterViolation ==
  [][ /\ pendingRollback' # null
           => /\ lastFinalized' # null
              /\ ~LatinSquareConstraint(diceCellsMask', diceOrientations')
              /\ Val(pendingRollback').sourceCellIndex
                   = Val(lastFinalized').roll.targetCellIndex
              /\ Val(pendingRollback').targetCellIndex
                   = Val(lastFinalized').roll.cellIndex
      /\ ( /\ FinalizeStep
           /\ rollingState # null
           /\ LatinSquareConstraint(diceCellsMask', diceOrientations') )
           => (pendingRollback' = null /\ invalidHighlightCell' = null) ]_vars

\* C8 witness: a finalize has just moved a die into a row or column that
\* holds another die and the board satisfies the constraint: nothing is
\* scheduled.
C8_Witness ==
  /\ lastCall.op = "finalizeRollingAnimation"
  /\ lastFinalized # null
  /\ Val(lastFinalized).time = now
  /\ LatinSquareConstraint(diceCellsMask, diceOrientations)
  /\ \E c \in Cells \ { Val(lastFinalized).roll.targetCellIndex } :
       /\ diceCellsMask[c]
       /\ \/ Row(c) = Row(Val(lastFinalized).roll.targetCellIndex)
          \/ Col(c) = Col(Val(lastFinalized).roll.targetCellIndex)
  /\ pendingRollback = null
  /\ invalidHighlightCell = null

\* C9: processFrame changes the controller only when a Pending Rollback
\* exists, no Rolling State exists and now >= the highlight expiry; so a roll
\* it starts starts at least 600 ms after the finalize that recorded the
\* rollback and never replaces a roll in flight.
C9_TickOnlyWhenDue ==
  [][ TickStep =>
        /\ ~( /\ pendingRollback # null
              /\ rollingState = null
              /\ now >= invalidHighlightExpiry )
             => UNCHANGED controller
        /\ rollingState' # rollingState
             => /\ rollingState = null
                /\ lastFinalized # null
                /\ now >= Val(lastFinalized).time + 600 ]_vars

\* C9 witness: processFrame has just started the rollback roll.
C9_Witness ==
  /\ lastCall.op = "processFrame"
  /\ rollingState # null
  /\ rollingIssuedBy = "processFrame"
  /\ Val(rollingState).startTime = now
  /\ pendingRollback = null
  /\ lastFinalized # null
  /\ now >= Val(lastFinalized).time + 600

\* C10: when the roll issued by processFrame is finalized, the occupancy mask
\* is the mask before the violating roll and every die has the orientation
\* and the top-face digit it had before the violating roll.
C10_RollbackRestoresBoard ==
  [][ ( /\ FinalizeStep
        /\ rollingState # null
        /\ rollingIssuedBy = "processFrame" )
      => /\ lastFinalized # null
         /\ diceCellsMask' = Val(lastFinalized).maskBefore
         /\ \A c \in Cells :
              diceCellsMask'[c]
                => /\ diceOrientations'[c] = Val(lastFinalized).orientationsBefore[c]
                   /\ getTopFaceValue(diceCellsMask', diceOrientations', c)
                        = getTopFaceValue(Val(lastFinalized).maskBefore,
                                          Val(lastFinalized).orientationsBefore, c) ]_vars

\* C10 witness: the roll issued by processFrame has just been finalized.
C10_Witness ==
  /\ lastCall.op = "finalizeRollingAnimation"
  /\ lastFinalized # null
  /\ Val(lastFinalized).time = now
  /\ Val(lastFinalized).issuedBy = "processFrame"
  /\ diceCellsMask[Val(lastFinalized).roll.targetCellIndex]
  /\ pendingRollback = null

(***************************************************************************)
(* Properties of the orientation algebra (AlgebraSpec)                     *)
(***************************************************************************)
\* the orientation a walk had reached before its i-th roll
before(w, i) == IF i = 1 THEN w.start ELSE w.at[i - 1]

\* two face labels lie on the same axis of the cube
SameAxis(a, b) ==
  \/ a = b
  \/ { a, b } \in { { "TOP", "BOTTOM" }, { "NORTH", "SOUTH" }, { "EAST", "WEST" } }

RECURSIVE RollAll(_, _)
\* the rolls of a sequence of directions applied one after the other
RollAll(o, directions) ==
  IF Len(directions) = 0 THEN o
  ELSE RollAll(roll(o, Head(directions)), Tail(directions))

\* C12: a roll followed by the roll in the opposite direction gives back the
\* orientation the first roll started from, for every legal orientation and
\* every direction.
C12_RollThenOppositeIsIdentity ==
  \A i \in 2 .. Len(walk.steps) :
    walk.steps[i] = OppositeDirection(walk.steps[i - 1])
      => walk.at[i] = before(walk, i - 1)

\* C12 witness: an orientation other than the canonical one has been rolled
\* up to another orientation and then down.
C12_Witness ==
  /\ walk.start \in LegalOrientations \ { identity }
  /\ walk.steps = << "up", "down" >>
  /\ walk.at[1] # walk.start
  /\ walk.at[2] = walk.start

\* C13: a roll of a legal orientation never raises the invalid-orientation
\* error and gives a legal orientation, and under each direction the
\* orientation reached has exactly one predecessor and one successor among
\* the 24 legal orientations.
C13_RollIsBijection ==
  /\ \A i \in 1 .. Len(walk.at) :
       /\ walk.at[i] # InvalidOrientation
       /\ walk.at[i] \in LegalOrientations
  /\ current(walk) \in LegalOrientations
       => \A direction \in Rotations :
            /\ Cardinality({ p \in LegalOrientations :
                               roll(p, direction) = current(walk) }) = 1
            /\ roll(current(walk), direction) \in LegalOrientations
  /\ Cardinality(LegalOrientations) = 24

\* C13 witness: a legal orientation has been rolled twice and stands on a
\* third orientation.
C13_Witness ==
  /\ Len(walk.at) = 2
  /\ walk.at[1] # walk.start
  /\ walk.at[2] \notin { walk.start, walk.at[1] }
  /\ walk.at[2] \in LegalOrientations

\* C14: new CubeOrientation(x, y) succeeds, with the two labels kept, exactly
\* when x and y lie on different axes: for 24 of the 36 pairs; for the 6 equal
\* and the 6 opposite pairs it raises the invalid-orientation error.
C14_ConstructorAcceptsPerpendicularPairs ==
  /\ walk # NoWalk
       => /\ walk.start # InvalidOrientation
               <=> ~SameAxis(walk.labels[1], walk.labels[2])
          /\ walk.start # InvalidOrientation
               => walk.start = [ x |-> walk.labels[1], y |-> walk.labels[2] ]
  /\ Cardinality({ xy \in Orientation \X Orientation :
                     CubeOrientation(xy[1], xy[2]) # InvalidOrientation }) = 24
  /\ Cardinality({ xy \in Orientation \X Orientation :
                     CubeOrientation(xy[1], xy[2]) = InvalidOrientation }) = 12

\* C14 witness: the constructor has just refused a pair of opposite labels.
C14_Witness ==
  /\ walk.labels = << "TOP", "BOTTOM" >>
  /\ walk.start = InvalidOrientation
  /\ Len(walk.steps) = 0

\* C15: two rolls in different, non-opposite directions do not commute: the
\* orientation reached differs from the one reached with the two directions
\* swapped.
C15_RollIsNotCommutative ==
  \A i \in 2 .. Len(walk.steps) :
    ( /\ walk.steps[i] # walk.steps[i - 1]
      /\ walk.steps[i] # OppositeDirection(walk.steps[i - 1]) )
      => walk.at[i] # roll(roll(before(walk, i - 1), walk.steps[i]), walk.steps[i - 1])

\* C15 witness: an orientation has been rolled left and then up.
C15_Witness ==
  /\ walk.start \in LegalOrientations
  /\ walk.steps = << "left", "up" >>
  /\ walk.at[2] \in LegalOrientations

\* C16: a legal orientation satisfies exactly one of the six digit
\* predicates, so its top-face digit is computed without the 'unable to
\* determine top face' error, and each digit is the top face of exactly 4
\* orientations.
C16_ExactlyOneTopDigit ==
  /\ current(walk) \in LegalOrientations
       => /\ Cardinality({ i \in 1 .. Len(DICE_DIGITS) :
                             DIGIT_ORIENTATION_PREDICATES(DICE_DIGITS[i], current(walk)) }) = 1
          /\ walk.top # NoTopFace
          /\ DIGIT_ORIENTATION_PREDICATES(walk.top, current(walk))
          /\ Len(ORIENTATIONS_FOR_TOP_DIGIT(walk.top)) = 4
          /\ Cardinality({ o \in LegalOrientations :
                             getTopFaceValueFromOrientation(o) = walk.top }) = 4
          /\ \E k \in 1 .. 4 : ORIENTATIONS_FOR_TOP_DIGIT(walk.top)[k] = current(walk)

\* C16 witness: a roll has brought the digit 6 to the top.
C16_Witness ==
  /\ Len(walk.at) >= 1
  /\ current(walk) \in LegalOrientations
  /\ walk.top = 6
  /\ before(walk, Len(walk.at)) # current(walk)

\* C20: the directions getRotationSequence returns for a legal orientation,
\* rolled one after the other from the canonical orientation, end on that
\* orientation; the sequence is empty for the canonical orientation only.
C20_RotationSequenceReachesOrientation ==
  current(walk) \in LegalOrientations
    => /\ RollAll(identity, walk.sequence) = current(walk)
       /\ walk.sequence = << >> <=> current(walk) = identity

\* C20 witness: the orientation reached has a sequence of two or more
\* directions.
C20_Witness ==
  /\ current(walk) \in LegalOrientations
  /\ Len(walk.sequence) >= 2
  /\ Len(walk.steps) >= 1

(***************************************************************************)
(* Properties of the board setup, over the boards of SolverSpec            *)
(***************************************************************************)
SolverCells == 0 .. (SolverGridSize * SolverGridSize - 1)
SolverRow(cellIndex) == cellIndex \div SolverGridSize
SolverCol(cellIndex) == cellIndex % SolverGridSize
SameLine(a, b) == SolverRow(a) = SolverRow(b) \/ SolverCol(a) = SolverCol(b)

\* the cell of the supplied grid holds a die
Occupied(grid, cellIndex) == grid[SolverRow(cellIndex) + 1][SolverCol(cellIndex) + 1] = "#"

\* the largest number of occupied cells in a row or in a column of the grid
Fullest(grid) ==
  LET counts == { Cardinality({ c \in SolverCells : Occupied(grid, c) /\ SolverRow(c) = k })
                    : k \in 0 .. (SolverGridSize - 1) }
                \cup
                { Cardinality({ c \in SolverCells : Occupied(grid, c) /\ SolverCol(c) = k })
                    : k \in 0 .. (SolverGridSize - 1) }
  IN  CHOOSE n \in counts : \A m \in counts : m <= n

\* the assignment gives a digit to the occupied cells of the grid and to no
\* other, and repeats no digit in a row or in a column
LatinAssignment(grid, assignment) ==
  /\ \A c \in SolverCells :
       IF Occupied(grid, c)
       THEN assignment[c] # null /\ Val(assignment[c]) \in 1 .. 6
       ELSE assignment[c] = null
  /\ \A a, b \in SolverCells :
       (a # b /\ Occupied(grid, a) /\ Occupied(grid, b) /\ SameLine(a, b))
         => assignment[a] # assignment[b]

\* C17: for every grid with at most 6 occupied cells in every row and every
\* column the solver does not fail, and its assignment gives every occupied
\* cell a digit in 1..6, no digit to an unoccupied cell, and repeats no digit
\* among the occupied cells of a row or of a column
C17_SolverAssignsLatinDigits ==
  (lastSetup # null /\ Fullest(Val(lastSetup).grid) <= 6)
    => /\ Val(lastSetup).error = ""
       /\ LatinAssignment(Val(lastSetup).grid, Val(lastSetup).latinAssignment)

\* a grid with six dice in one line and two in a crossing line has been
\* solved
C17_Witness ==
  /\ lastSetup # null
  /\ Val(lastSetup).error = ""
  /\ Fullest(Val(lastSetup).grid) = 6
  /\ \E a, b \in SolverCells :
       /\ Occupied(Val(lastSetup).grid, a) /\ Occupied(Val(lastSetup).grid, b)
       /\ SolverRow(a) # SolverRow(b) /\ SolverCol(a) = SolverCol(b)
       /\ Cardinality({ c \in SolverCells : Occupied(Val(lastSetup).grid, c)
                                            /\ SolverRow(c) = SolverRow(a) }) = 6
  /\ LatinAssignment(Val(lastSetup).grid, Val(lastSetup).latinAssignment)

\* the message of the Error thrown when solve(0) returns false
UnableToComplete == "Unable to complete Latin square for that grid."

\* no assignment of the digits 1..6 to the occupied cells of the grid is free
\* of repeats in every row and column: by Koenig's edge-colouring theorem
\* (rows and columns are the two sides of a bipartite graph, occupied cells
\* its edges, digits the colours) this is the case exactly when a row or a
\* column holds more than 6 occupied cells
NoAssignmentExists(grid) == Fullest(grid) > Len(DICE_DIGITS)

\* C18: setDiceMaskFromGrid ends with the "unable to complete Latin square"
\* error exactly when no assignment of digits 1..6 satisfies the occupied
\* cells of the grid; the board is then left without dice, and when there is
\* no error the assignment is complete and repeats no digit in a line
C18_SolverFailsExactlyWhenUnsatisfiable ==
  lastSetup # null
    => /\ (Val(lastSetup).error = UnableToComplete)
            <=> NoAssignmentExists(Val(lastSetup).grid)
       /\ Val(lastSetup).error \in { "", UnableToComplete }
       /\ lastCall = Call("setDiceMaskFromGrid", Val(lastSetup).error)
       /\ Val(lastSetup).error # "" => \A c \in SolverCells : ~diceCellsMask[c]
       /\ Val(lastSetup).error = ""
            => LatinAssignment(Val(lastSetup).grid, Val(lastSetup).latinAssignment)

\* a grid with a full first column has been rejected
C18_Witness ==
  /\ lastSetup # null
  /\ Val(lastSetup).error = UnableToComplete
  /\ lastCall.exit = UnableToComplete
  /\ \A c \in SolverCells : SolverCol(c) = 0 => Occupied(Val(lastSetup).grid, c)
  /\ \A c \in SolverCells : ~diceCellsMask[c]

\* C19: after a setDiceMaskFromGrid that did not throw, the dice are on the
\* "#" cells of the supplied grid and on no other, getTopFaceValue of every
\* die is the digit the solver assigned to its cell, and no two dice of a row
\* or of a column show the same digit
C19_SetupShowsAssignedDigits ==
  (lastSetup # null /\ Val(lastSetup).error = "")
    => /\ \A c \in SolverCells : diceCellsMask[c] <=> Occupied(Val(lastSetup).grid, c)
       /\ \A c \in SolverCells :
            Occupied(Val(lastSetup).grid, c)
              => getTopFaceValue(diceCellsMask, diceOrientations, c)
                   = Val(lastSetup).latinAssignment[c]
       /\ \A a, b \in SolverCells :
            (a # b /\ diceCellsMask[a] /\ diceCellsMask[b] /\ SameLine(a, b))
              => getTopFaceValue(diceCellsMask, diceOrientations, a)
                   # getTopFaceValue(diceCellsMask, diceOrientations, b)

\* a board of nine dice, six in a column and three in the next, has been set
\* up and shows the assigned digits
C19_Witness ==
  /\ lastSetup # null
  /\ Val(lastSetup).error = ""
  /\ loaded
  /\ Cardinality({ c \in SolverCells : diceCellsMask[c] /\ SolverCol(c) = 0 }) = 6
  /\ Cardinality({ c \in SolverCells : diceCellsMask[c] /\ SolverCol(c) = 1 }) = 3
  /\ \A c \in SolverCells :
       diceCellsMask[c]
         => Some(getTopFaceValueFromOrientation(diceOrientations[c]))
              = Val(lastSetup).latinAssignment[c]

(***************************************************************************)
(* Properties of the draw loop, over DrawSpec                              *)
(***************************************************************************)
\* the moves startRollingAnimation can start: a cell and a rotation with a
\* target on the grid
GridMoves == { m \in Cells \X Rotations : getTargetCellIndex(m[1], m[2]) # null }

\* a roll of the move is in flight
InFlight(m) ==
  /\ rollingState # null
  /\ Val(rollingState).cellIndex = m[1]
  /\ Val(rollingState).rotation = m[2]

\* finalizeRollingAnimation has moved the die of a roll of the move to its
\* target
Finalized(m) ==
  /\ lastFinalized # null
  /\ Val(lastFinalized).roll.cellIndex = m[1]
  /\ Val(lastFinalized).roll.rotation = m[2]
  /\ diceCellsMask[Val(lastFinalized).roll.targetCellIndex]

\* the clock has run for DrawFrames frames
ClockExhausted == now + FrameStep > DrawFrames * FrameStep

\* C11: under the draw loop, with time advancing, every rolling state that
\* has been created is eventually finalized: the die is moved to the target
\* cell and the rolling state is cleared (or the clock has run out)
C11_RollIsEventuallyFinalized ==
  \A m \in GridMoves : InFlight(m) ~> (Finalized(m) \/ ClockExhausted)

(***************************************************************************)
(* Further properties of the orientation algebra (AlgebraSpec)             *)
(***************************************************************************)
\* the original statement of C21: getRotationSequence returns at most 3
\* directions for each of the 24 orientations
C21_SequenceAtMostThree ==
  current(walk) \in LegalOrientations => Len(walk.sequence) <= 3

\* C21, amended: getRotationSequence returns at most 4 directions for each
\* of the 24 orientations, and 4 for the half turn about the axis that no
\* roll turns about, which two left rolls and two up rolls reach
C21_SequenceAtMostFour ==
  current(walk) \in LegalOrientations
    => /\ Len(walk.sequence) <= 4
       /\ Len(walk.sequence) = 4
            <=> current(walk) = RollAll(identity, << "left", "left", "up", "up" >>)

\* a roll has ended on the orientation whose sequence has 4 directions
C21_Witness ==
  /\ Len(walk.steps) >= 1
  /\ current(walk) \in LegalOrientations
  /\ Len(walk.sequence) = 4

(***************************************************************************)
(* Properties of the generator (GeneratorSpec)                             *)
(***************************************************************************)
\* (s * 1664525 + 1013904223) mod 2^32 in integer arithmetic
lcgExact(s) ==
  LET low == s.lo * (LCG_MULTIPLIER % LIMB) + (LCG_INCREMENT % LIMB)
      high == (low \div LIMB) + s.lo * (LCG_MULTIPLIER \div LIMB)
                + s.hi * (LCG_MULTIPLIER % LIMB) + (LCG_INCREMENT \div LIMB)
  IN  [ hi |-> high % LIMB, lo |-> low % LIMB ]

\* C22: every step of the generator is (state * 1664525 + 1013904223) mod
\* 2^32 without loss of precision (the product and the sum stay below 2^53),
\* the value returned, state' / 2^32, lies in [0, 1) and is never 1, and the
\* index floor(value * n) lies in 0 .. n - 1
C22_GeneratorStepIsExact ==
  \A i \in 1 .. Len(generator.draws) :
    LET draw == generator.draws[i]
        product == times(draw.before, LCG_MULTIPLIER)
    IN  /\ draw.after = lcgExact(draw.before)
        /\ excessBits(product.top) = 0
        /\ excessBits(plus(product, LCG_INCREMENT).top) = 0
        /\ draw.after.hi \in 0 .. (LIMB - 1)
        /\ draw.after.lo \in 0 .. (LIMB - 1)
        /\ draw.index \in 0 .. (draw.n - 1)

\* a step whose product needs all 53 bits of a Number has given the last
\* index of the longest array
C22_Witness ==
  \E i \in 1 .. Len(generator.draws) :
    /\ times(generator.draws[i].before, LCG_MULTIPLIER).top >= 2 ^ 20
    /\ generator.draws[i].n = MaxItems
    /\ generator.draws[i].index = MaxItems - 1

(***************************************************************************)
(* Properties of two controllers (TwinSpec)                                *)
(***************************************************************************)
\* both controllers have been given a grid
BothSetUp == loaded /\ twin # NoTwin /\ Val(twin).setup # null

Highlighted == { cell \in Cells : isCellInvalidHighlight(invalidHighlightCell, cell) }

\* C24: in every state, the state a firing processFrame leaves included, a
\* cell is highlighted exactly when a Pending Rollback exists and the cell
\* is its source, the target of the violating roll; at most one cell is
\* highlighted, and none once processFrame has fired the rollback
C24_HighlightIsPendingRollbackSource ==
  /\ \A cell \in Cells :
       cell \in Highlighted
         <=> ( /\ pendingRollback # null
               /\ Val(pendingRollback).sourceCellIndex = cell )
  /\ pendingRollback # null
       => /\ lastFinalized # null
          /\ Val(pendingRollback).sourceCellIndex = Val(lastFinalized).roll.targetCellIndex
  /\ Cardinality(Highlighted) <= 1
  /\ (lastCall.op = "processFrame" /\ lastCall.exit # "not due") => Highlighted = { }

\* processFrame has just fired the rollback of a violating roll: the
\* highlight that was on the roll's target is cleared
C24_Witness ==
  /\ lastCall = Call("processFrame", "started")
  /\ lastFinalized # null
  /\ Val(lastFinalized).time + INVALID_HIGHLIGHT_DURATION_MS <= now
  /\ pendingRollback = null
  /\ Highlighted = { }

\* C25: in every state, getTopFaceValue of a cell without a die is null, in
\* getTopFaceValues too, and no query fails; this holds for the cell a die
\* has just left, whose stored orientation is still the die's
C25_UnoccupiedCellHasNoTopFace ==
  /\ \A cell \in Cells :
       ~diceCellsMask[cell]
         => /\ getTopFaceValue(diceCellsMask, diceOrientations, cell) = null
            /\ getTopFaceValues(diceCellsMask, diceOrientations)[cell] = null
  /\ \A cell \in Cells :
       diceCellsMask[cell]
         => getTopFaceValues(diceCellsMask, diceOrientations)[cell]
              \in { Some(DICE_DIGITS[i]) : i \in 1 .. Len(DICE_DIGITS) }
  /\ ( /\ lastCall.op = "finalizeRollingAnimation"
       /\ lastFinalized # null
       /\ Val(lastFinalized).time = now )
       => getTopFaceValue(diceCellsMask, diceOrientations,
                          Val(lastFinalized).roll.cellIndex) = null

\* a die has just left a cell: the cell still stores the die's orientation
\* and the query of it is null
C25_Witness ==
  /\ lastCall.op = "finalizeRollingAnimation"
  /\ lastFinalized # null
  /\ Val(lastFinalized).time = now
  /\ ~diceCellsMask[Val(lastFinalized).roll.cellIndex]
  /\ diceOrientations[Val(lastFinalized).roll.cellIndex]
       = Val(lastFinalized).orientationsBefore[Val(lastFinalized).roll.cellIndex]
  /\ getTopFaceValue(diceCellsMask, diceOrientations,
                     Val(lastFinalized).roll.cellIndex) = null

(***************************************************************************)
(* Properties of the animation query (AnimationSpec)                       *)
(***************************************************************************)
\* the step is a call of computeRollingAnimation()
ComputeStep == lastCall'.op = "computeRollingAnimation"

\* what computeRollingAnimation answers for a start timestamp and a time,
\* whatever the rest of the Rolling State is
progressAt(startTime, time) ==
  Val(computeRollingAnimation(Some([ cellIndex |-> 0, targetCellIndex |-> 0,
                                     rotation |-> "left", startTime |-> startTime ]),
                              time)).progress

\* C26: a call of computeRollingAnimation changes no field of the
\* controller; it answers none exactly when no Rolling State exists;
\* otherwise its progress depends on the start timestamp and the current
\* time only, lies in [0, 1] (0 .. ROLL_DURATION_MS over ROLL_DURATION_MS),
\* and is 1 exactly when at least ROLL_DURATION_MS = 320 ms have elapsed
C26_ProgressIsClampedAndPure ==
  [][ ComputeStep =>
        /\ UNCHANGED << controller, now >>
        /\ lastCall'.exit = "none" <=> rollingState = null
        /\ computeRollingAnimation(rollingState, now) = null <=> rollingState = null
        /\ rollingState # null =>
             /\ Val(computeRollingAnimation(rollingState, now)).progress
                  = progressAt(Val(rollingState).startTime, now)
             /\ progressAt(Val(rollingState).startTime, now) \in 0 .. ROLL_DURATION_MS
             /\ progressAt(Val(rollingState).startTime, now) = ROLL_DURATION_MS
                  <=> now - Val(rollingState).startTime >= 320
             /\ lastCall'.exit = "complete"
                  <=> now - Val(rollingState).startTime >= 320
             /\ [ f \in DOMAIN Val(rollingState)
                    |-> Val(computeRollingAnimation(rollingState, now))[f] ]
                  = Val(rollingState) ]_vars

\* the animation has been asked for exactly ROLL_DURATION_MS after the
\* start of the roll and is complete
C26_Witness ==
  /\ lastCall = Call("computeRollingAnimation", "complete")
  /\ rollingState # null
  /\ now - Val(rollingState).startTime = ROLL_DURATION_MS

\* C27: when processFrame fires a rollback, the state it leaves has a
\* Rolling State whose source, target and direction are those of the Pending
\* Rollback it cleared; the source is occupied and the target empty then
C27_FiredRollbackIsIssued ==
  [][ ( /\ TickStep
        /\ pendingRollback # null
        /\ pendingRollback' = null )
      => /\ rollingState' # null
         /\ Val(rollingState').cellIndex = Val(pendingRollback).sourceCellIndex
         /\ Val(rollingState').targetCellIndex = Val(pendingRollback).targetCellIndex
         /\ Val(rollingState').rotation = Val(pendingRollback).rotation
         /\ diceCellsMask'[Val(pendingRollback).sourceCellIndex]
         /\ ~diceCellsMask'[Val(pendingRollback).targetCellIndex] ]_vars

\* processFrame has just fired the rollback of the last roll finalized: the
\* roll in flight leads back from that roll's target to its source
C27_Witness ==
  /\ lastCall = Call("processFrame", "started")
  /\ pendingRollback = null
  /\ rollingState # null
  /\ rollingIssuedBy = "processFrame"
  /\ Val(rollingState).startTime = now
  /\ lastFinalized # null
  /\ Val(rollingState).cellIndex = Val(lastFinalized).roll.targetCellIndex
  /\ Val(rollingState).targetCellIndex = Val(lastFinalized).roll.cellIndex
  /\ Val(rollingState).rotation = INVERSE_ROTATION[Val(lastFinalized).roll.rotation]

(***************************************************************************)
(* The recorded rotation sequences (AlgebraSpec)                           *)
(***************************************************************************)
\* the place of a direction in DICE_ROTATIONS
rank(direction) == CHOOSE k \in 1 .. Len(DICE_ROTATIONS) : DICE_ROTATIONS[k] = direction

\* of two sequences of one length, s comes first when the directions are
\* taken in the order of DICE_ROTATIONS
comesBefore(s, t) ==
  \E i \in 1 .. Len(s) :
    /\ rank(s[i]) < rank(t[i])
    /\ \A j \in 1 .. (i - 1) : s[j] = t[j]

\* the sequences of n directions that lead from the identity to o
leadingTo(o, n) == { t \in [ 1 .. n -> Rotations ] : RollAll(identity, t) = o }

\* C28: the sequence recorded for an orientation leads to it from the
\* identity, no sequence of fewer directions does, and of the sequences of
\* as many directions that do it is the first in the order in which the
\* search tries the directions: left, up, right, down
C28_SequenceIsFirstShortest ==
  current(walk) \in LegalOrientations
    => /\ DICE_ROTATIONS = << "left", "up", "right", "down" >>
       /\ walk.sequence \in leadingTo(current(walk), Len(walk.sequence))
       /\ \A n \in 0 .. (Len(walk.sequence) - 1) : leadingTo(current(walk), n) = { }
       /\ \A t \in leadingTo(current(walk), Len(walk.sequence)) :
            t # walk.sequence => comesBefore(walk.sequence, t)

\* a roll has ended on an orientation that several sequences of the
\* shortest length lead to
C28_Witness ==
  /\ Len(walk.steps) >= 1
  /\ current(walk) \in LegalOrientations
  /\ Len(walk.sequence) >= 2
  /\ Cardinality(leadingTo(current(walk), Len(walk.sequence))) >= 2

\* C29: the third label of a legal orientation follows the permutation of
\* the two stored ones: z(roll(o, d)) is the table of d applied to z(o), a
\* label the table does not hold being left as it is; and x, y and z lie on
\* three different axes
C29_ThirdLabelFollowsRoll ==
  /\ \A i \in 1 .. Len(walk.at) :
       before(walk, i) \in LegalOrientations
         => z(walk.at[i]) = rotate(walk.steps[i], z(before(walk, i)))
  /\ current(walk) \in LegalOrientations
       => /\ \A d \in Rotations :
               z(roll(current(walk), d)) = rotate(d, z(current(walk)))
          /\ z(current(walk)) \in Orientation
          /\ ~SameAxis(current(walk).x, current(walk).y)
          /\ ~SameAxis(current(walk).x, z(current(walk)))
          /\ ~SameAxis(current(walk).y, z(current(walk)))

\* an orientation has been rolled in a direction whose table moves its
\* third label, and then in one whose table leaves a third label alone
C29_Witness ==
  /\ Len(walk.at) = 2
  /\ walk.start \in LegalOrientations
  /\ z(walk.at[1]) # z(walk.start)
  /\ z(walk.at[2]) = z(walk.at[1])
  /\ walk.at[2] # walk.at[1]

\* a grid has been set up without error, and no Rolling State and no Pending
\* Rollback exists
SetUpAndIdle ==
  /\ loaded
  /\ lastSetup # null
  /\ Val(lastSetup).error = ""
  /\ rollingState = null
  /\ pendingRollback = null

\* C30: after a successful setup, whatever calls of startRollingAnimation,
\* processFrame and finalizeRollingAnimation have been made, a state with
\* no Rolling State and no Pending Rollback has a board on which no two
\* dice of a row or of a column show the same top-face digit
C30_IdleBoardIsLatin ==
  SetUpAndIdle => LatinSquareConstraint(diceCellsMask, diceOrientations)

\* a violating roll has been rolled back: the roll issued by processFrame
\* has been finalized and the controller is idle again
C30_Witness ==
  /\ SetUpAndIdle
  /\ lastCall = Call("finalizeRollingAnimation", "valid")
  /\ lastFinalized # null
  /\ Val(lastFinalized).issuedBy = "processFrame"
  /\ ~LatinSquareConstraint(Val(lastFinalized).maskBefore,
                            Val(lastFinalized).orientationsBefore)

(***************************************************************************)
(* Properties of the drag interpreter (PointerSpec)                        *)
(***************************************************************************)
\* the step is a call of recordMovement(point)
RecordStep == lastCall'.op = "recordMovement"

\* the pointer at `point` is nearer than the threshold to the point the
\* drag keeps
NearLastDragPoint(point) ==
  /\ interaction.lastDragPoint # null
  /\ (point.x - Val(interaction.lastDragPoint).x) * (point.x - Val(interaction.lastDragPoint).x)
       + (point.y - Val(interaction.lastDragPoint).y) * (point.y - Val(interaction.lastDragPoint).y)
       < 20 * 20

\* C36: between a startDrag and the next startDrag or resetDrag,
\* recordMovement returns a move at most once; it returns null when no drag
\* is active and when the pointer has moved less than the threshold of 20;
\* and the cell of a move it returns is the cell the drag started on
C36_OneRotationPerDrag ==
  [][ RecordStep =>
        /\ drag'.emitted <= 1
        /\ drag.emitted >= 1 => Val(drag'.last).move = null
        /\ interaction.activeDragCell = null => Val(drag'.last).move = null
        /\ NearLastDragPoint(Val(drag'.last).point) => Val(drag'.last).move = null
        /\ Val(drag'.last).move # null
             => /\ drag.startedOn # null
                /\ Val(Val(drag'.last).move).cellIndex = Val(drag.startedOn)
                /\ Val(Val(drag'.last).move).rotation \in Rotations ]_vars

\* a drag has given its move and a later movement beyond the threshold has
\* been answered with null
C36_Witness ==
  /\ lastCall = Call("recordMovement", "null")
  /\ drag.emitted = 1
  /\ drag.startedOn # null
  /\ interaction.dragRotationApplied
  /\ ~NearLastDragPoint(Val(drag.last).point)

(***************************************************************************)
(* Properties of the sketch (MainSpec)                                     *)
(***************************************************************************)
\* C31: under the handlers of main.ts, in any order of mouse events and
\* frames, a Rolling State changes only by being finalized: it is never
\* replaced by another move, whether a drag or processFrame created it
C31_RollIsNeverReplaced ==
  [][ ( /\ rollingState # null
        /\ rollingState' # rollingState )
      => /\ rollingState' = null
         /\ lastCall'.op = "draw"
         /\ lastFinalized' # null
         /\ Val(lastFinalized').roll = Val(rollingState)
         /\ Val(lastFinalized').issuedBy = rollingIssuedBy
         /\ diceCellsMask'[Val(rollingState).targetCellIndex] ]_vars

\* while the roll issued by processFrame is in flight, a drag that was
\* started before it has been moved and mouseDragged has returned early
C31_Witness ==
  /\ lastCall = Call("mouseDragged", "rolling")
  /\ rollingState # null
  /\ rollingIssuedBy = "processFrame"
  /\ interaction.activeDragCell # null
  /\ ~interaction.dragRotationApplied

(***************************************************************************)
(* Further invariants of the controller (Spec)                             *)
(***************************************************************************)
\* C32: in every state reached by calls of startRollingAnimation,
\* processFrame and finalizeRollingAnimation, a Rolling State and a Pending
\* Rollback do not both exist
C32_RollingExcludesPendingRollback ==
  ~(rollingState # null /\ pendingRollback # null)

\* a rollback is pending, its highlight has expired and processFrame has
\* not run yet: a request made now has been refused and no Rolling State
\* exists
C32_Witness ==
  /\ pendingRollback # null
  /\ rollingState = null
  /\ now >= invalidHighlightExpiry
  /\ lastCall = Call("startRollingAnimation", "rollback pending")

\* the cells that hold a die
OccupiedCells == { c \in DOMAIN diceCellsMask : diceCellsMask[c] }

\* the '#' cells of the grid given to setDiceMaskFromGrid
GridDice ==
  { c \in Cells : Val(lastSetup).grid[Row(c) + 1][Col(c) + 1] = "#" }

\* C33: after a setup, whatever calls of startRollingAnimation,
\* processFrame and finalizeRollingAnimation are made, the number of
\* occupied cells is the number of dice of the grid, the mask and the
\* orientation array keep gridSize * gridSize entries, and the source of a
\* Rolling State holds a die while its target is an empty neighbour in the
\* source's row or column, so that finalize moves no die onto another
C33_DiceAreConserved ==
  ( loaded /\ Val(lastSetup).error = "" )
    => /\ Cardinality(OccupiedCells) = Cardinality(GridDice)
       /\ DOMAIN diceCellsMask = 0 .. (gridSize * gridSize - 1)
       /\ DOMAIN diceOrientations = 0 .. (gridSize * gridSize - 1)
       /\ \A c \in Cells : diceOrientations[c] \in LegalOrientations
       /\ rollingState # null
            => /\ diceCellsMask[Val(rollingState).cellIndex]
               /\ ~diceCellsMask[Val(rollingState).targetCellIndex]
               /\ ~OffGrid(Val(rollingState).cellIndex, Val(rollingState).rotation)
               /\ Val(rollingState).targetCellIndex
                    = Neighbour(Val(rollingState).cellIndex, Val(rollingState).rotation)
               /\ \/ Row(Val(rollingState).targetCellIndex) = Row(Val(rollingState).cellIndex)
                  \/ Col(Val(rollingState).targetCellIndex) = Col(Val(rollingState).cellIndex)

\* on a board of MaxDice dice a roll is in flight after another has been
\* finalized: its target is empty although the dice have moved
C33_Witness ==
  /\ loaded
  /\ Cardinality(OccupiedCells) = MaxDice
  /\ lastFinalized # null
  /\ OccupiedCells # { c \in Cells : Val(lastFinalized).maskBefore[c] }
  /\ rollingState # null
  /\ ~diceCellsMask[Val(rollingState).targetCellIndex]

(***************************************************************************)
(* The top face under a roll (AlgebraSpec)                                 *)
(***************************************************************************)
\* the digit on top of a legal orientation
top(o) == getTopFaceValueFromOrientation(o)

\* C34: for every legal orientation o with top-face digit t and every
\* direction d, the top-face digit of roll(o, d) is a digit other than t
\* and other than the opposite digit 7 - t
C34_RollChangesTopDigit ==
  /\ \A i \in 1 .. Len(walk.at) :
       before(walk, i) \in LegalOrientations
         => /\ top(walk.at[i]) \in 1 .. 6
            /\ top(walk.at[i]) # top(before(walk, i))
            /\ top(walk.at[i]) # 7 - top(before(walk, i))
  /\ current(walk) \in LegalOrientations
       => \A d \in Rotations :
            /\ top(roll(current(walk), d)) \in 1 .. 6
            /\ top(roll(current(walk), d)) # walk.top
            /\ top(roll(current(walk), d)) # 7 - walk.top

\* two rolls in a row have each put a new digit on top
C34_Witness ==
  /\ Len(walk.at) = 2
  /\ walk.start \in LegalOrientations
  /\ top(walk.at[1]) # top(walk.start)
  /\ top(walk.at[2]) # top(walk.at[1])
  /\ walk.top = top(walk.at[2])

(***************************************************************************)
(* Properties of a rejected setup (SetupSpec)                              *)
(***************************************************************************)
\* the step is a call of setDiceMaskFromGrid that throws
SetupFails ==
  /\ lastCall'.op = "setDiceMaskFromGrid"
  /\ lastCall'.exit # ""

\* C35: when setDiceMaskFromGrid fails, because the height or the width of
\* the grid is not the size of the board or because the dice of the grid
\* cannot be given digits, the occupancy mask and the orientation array
\* are what they were before the call
C35_FailedSetupLeavesBoard ==
  [][ SetupFails =>
        /\ lastCall'.exit \in { "Grid dimensions mismatch when building Latin square.",
                                "Unable to complete Latin square for that grid." }
        /\ lastCall'.exit = "Grid dimensions mismatch when building Latin square."
             <=> ( \/ Len(Val(lastSetup').grid) # SolverGridSize
                   \/ Len(Val(lastSetup').grid[1]) # SolverGridSize )
        /\ diceCellsMask' = diceCellsMask
        /\ diceOrientations' = diceOrientations ]_vars

\* a board that holds dice has been given a grid with a full line, and the
\* call has failed
C35_Witness ==
  /\ lastCall = Call("setDiceMaskFromGrid",
                     "Unable to complete Latin square for that grid.")
  /\ Cardinality({ c \in DOMAIN diceCellsMask : diceCellsMask[c] }) >= 2
  /\ Cardinality({ c \in DOMAIN diceCellsMask : diceCellsMask[c] }) < SolverGridSize

\* C37: the search undoes what it did.  When an activation of solve returns
\* false, the assignments and the sets of used digits of the rows and of
\* the columns are what they were when it was entered; and at every step
\* the set of a row (of a column) holds the digits assigned in that row
\* (in that column), no more and no fewer.
assignedIn(q, cells) ==
  { Val(q.assignments[cell]) : cell \in { c \in cells : q.assignments[c] # null } }

C37_BacktrackingIsSymmetric ==
  search # NoSearch =>
    \E q \in { Val(search) } :
      /\ (q.phase = "return" /\ ~q.ok) => searchBoard(q) = q.entry
      /\ \A row \in DOMAIN q.rowUsed :
           q.rowUsed[row] = assignedIn(q, { row * q.width + col : col \in DOMAIN q.colUsed })
      /\ \A col \in DOMAIN q.colUsed :
           q.colUsed[col] = assignedIn(q, { row * q.width + col : row \in DOMAIN q.rowUsed })

\* an activation that was called by another has tried digits, taken them all
\* back and returned false, with dice still assigned on the board
C37_Witness ==
  /\ search # NoSearch
  /\ \E q \in { Val(search) } :
       /\ q.phase = "return"
       /\ ~q.ok
       /\ Len(q.stack) > 0
       /\ q.index < Len(q.positions)
       /\ \E digit \in 1 .. Len(DICE_DIGITS) :
            /\ digit \notin q.rowUsed[q.positions[q.index + 1].row]
            /\ digit \notin q.colUsed[q.positions[q.index + 1].col]
       /\ \E row \in DOMAIN q.rowUsed : q.rowUsed[row] # {}

====
